---- MODULE Spec2Model ----
(***************************************************************************)
(* Model of pysiteindex (src/pysiteindex/si.py): the generic searches      *)
(* find_si and find_bha, the SiteCurve wrappers around them and the        *)
(* closed-form curve families.                                             *)
(*                                                                         *)
(* Python floats are modelled as binary floating-point numbers with a      *)
(* 24-bit mantissa: a number is a record [m, e] standing for m * 2^e, and  *)
(* every arithmetic operation rounds its result to 24 bits.  Infinities,   *)
(* NaN, None, an unassigned local and a raised exception are special       *)
(* records.                                                                *)
(***************************************************************************)
EXTENDS Integers, Sequences, FiniteSets, TLC

(***************************************************************************)
(* Floating point                                                          *)
(***************************************************************************)
MantBits == 24
GuardBits == 5
SpecialExp == 9999
Top == 2^(MantBits - 1)

Zero == [m |-> 0, e |-> 0]
Inf == [m |-> Top, e |-> SpecialExp]
NegInf == [m |-> -Top, e |-> SpecialExp]
NaN == [m |-> 0, e |-> SpecialExp]
\* Python's None, passed where a number is expected
None == [m |-> 1, e |-> SpecialExp]
\* an exception raised while the value was computed
Raised == [m |-> 2, e |-> SpecialExp]
\* a local variable that was never assigned
Unbound == [m |-> 3, e |-> SpecialExp]

IsNaN(x) == x = NaN
IsRaised(x) == x = Raised
IsInf(x) == x = Inf \/ x = NegInf
\* np.isfinite
IsFinite(x) == x.e # SpecialExp
\* a float: finite, infinite or NaN
IsNumber(x) == IsFinite(x) \/ IsInf(x) \/ IsNaN(x)

\* the element of a one-element set: {F(a) : a \in {x}} evaluates the
\* operand x once, before F is applied, as Python evaluates an argument
The(S) == CHOOSE v \in S : TRUE

Sgn(n) == IF n > 0 THEN 1 ELSE IF n < 0 THEN -1 ELSE 0
Abs(n) == IF n < 0 THEN -n ELSE n

\* the number of bits of n, 0 < n < 2^31
BitLen(n) == CHOOSE k \in 1..31 : 2^(k - 1) <= n /\ (k = 31 \/ n < 2^k)

\* n * 2^e rounded to a 24-bit mantissa, n # 0 of k bits
Round(n, e, k) ==
    IF k <= MantBits
    THEN [m |-> n * 2^(MantBits - k), e |-> e - (MantBits - k)]
    ELSE LET sh == k - MantBits
             q == (Abs(n) \div 2^sh) + ((Abs(n) \div 2^(sh - 1)) % 2)
         IN IF q = 2^MantBits
            THEN [m |-> Sgn(n) * Top, e |-> e + sh + 1]
            ELSE [m |-> Sgn(n) * q, e |-> e + sh]

\* n * 2^e rounded to a 24-bit mantissa, |n| < 2^31
Norm(n, e) ==
    The({IF v = 0 THEN Zero ELSE The({Round(v, e, k) : k \in {BitLen(Abs(v))}}) :
         v \in {n}})

FromInt(n) == Norm(n, 0)

NegV(x) ==
    IF x.e = SpecialExp /\ ~IsNumber(x) THEN Raised
    ELSE [m |-> -x.m, e |-> x.e]

\* -x
FNeg(x) == The({NegV(a) : a \in {x}})

AbsV(x) ==
    IF x.e = SpecialExp /\ ~IsNumber(x) THEN Raised
    ELSE [m |-> Abs(x.m), e |-> x.e]

\* abs(x)
FAbs(x) == The({AbsV(a) : a \in {x}})

\* x + y with x or y not finite
AddSpecial(x, y) ==
    IF ~IsNumber(x) \/ ~IsNumber(y) THEN Raised
    ELSE IF IsNaN(x) \/ IsNaN(y) THEN NaN
    ELSE IF IsInf(x) THEN (IF IsInf(y) /\ y # x THEN NaN ELSE x)
    ELSE y

\* big + small of finite numbers, big.e >= small.e
AddOrdered(big, small) ==
    IF big.e - small.e > MantBits + 1 THEN big
    ELSE Norm(big.m * 2^GuardBits
                + Sgn(small.m) * ((Abs(small.m) * 2^GuardBits) \div 2^(big.e - small.e)),
              big.e - GuardBits)

AddV(x, y) ==
    IF x.e = SpecialExp \/ y.e = SpecialExp THEN AddSpecial(x, y)
    ELSE IF x.m = 0 THEN y
    ELSE IF y.m = 0 THEN x
    ELSE IF x.e >= y.e THEN AddOrdered(x, y)
    ELSE AddOrdered(y, x)

\* x + y
FAdd(x, y) == The({AddV(a, b) : a \in {x}, b \in {y}})

\* x - y
FSub(x, y) == FAdd(x, FNeg(y))

\* the product of two 24-bit mantissas, cut to its upper 26 bits
MulMant(p, q) ==
    LET a == p \div 4096
        b == p % 4096
        c == q \div 4096
        d == q % 4096
        s == a * d + b * c
    IN 4 * a * c + (s \div 1024) + (((s % 1024) * 4096 + b * d) \div 2^22)

\* x * y with x or y not finite
MulSpecial(x, y) ==
    IF ~IsNumber(x) \/ ~IsNumber(y) THEN Raised
    ELSE IF IsNaN(x) \/ IsNaN(y) THEN NaN
    ELSE IF x.m = 0 \/ y.m = 0 THEN NaN
    ELSE IF Sgn(x.m) = Sgn(y.m) THEN Inf ELSE NegInf

MulV(x, y) ==
    IF x.e = SpecialExp \/ y.e = SpecialExp THEN MulSpecial(x, y)
    ELSE IF x.m = 0 \/ y.m = 0 THEN Zero
    ELSE Norm(Sgn(x.m) * Sgn(y.m) * MulMant(Abs(x.m), Abs(y.m)), x.e + y.e + 22)

\* x * y
FMul(x, y) == The({MulV(a, b) : a \in {x}, b \in {y}})

RECURSIVE DivMant(_, _, _, _)
\* the quotient q of two mantissas extended by 5 * j more bits, r the remainder
DivMant(q, r, d, j) ==
    IF j = 0 THEN q
    ELSE DivMant(q * 32 + ((r * 32) \div d), (r * 32) % d, d, j - 1)

\* x / y with x or y not finite
DivSpecial(x, y) ==
    IF ~IsNumber(x) \/ ~IsNumber(y) THEN Raised
    ELSE IF IsNaN(x) \/ IsNaN(y) THEN NaN
    ELSE IF y.m = 0 THEN Raised
    ELSE IF IsInf(x)
         THEN (IF IsInf(y) THEN NaN
               ELSE IF Sgn(x.m) = Sgn(y.m) THEN Inf ELSE NegInf)
    ELSE Zero

DivV(x, y) ==
    IF x.e = SpecialExp \/ y.e = SpecialExp THEN DivSpecial(x, y)
    ELSE IF y.m = 0 THEN Raised
    ELSE IF x.m = 0 THEN Zero
    ELSE Norm(Sgn(x.m) * Sgn(y.m)
                * DivMant(Abs(x.m) \div Abs(y.m), Abs(x.m) % Abs(y.m), Abs(y.m), 5),
              x.e - y.e - 25)

\* Python float division: a zero divisor raises ZeroDivisionError
FDiv(x, y) == The({DivV(a, b) : a \in {x}, b \in {y}})

\* the order of two floats, neither NaN: -1, 0 or 1
Cmp(x, y) ==
    IF Sgn(x.m) # Sgn(y.m) THEN Sgn(Sgn(x.m) - Sgn(y.m))
    ELSE IF x.m = 0 THEN 0
    ELSE IF x.e # y.e THEN Sgn(x.m) * Sgn(x.e - y.e)
    ELSE Sgn(x.m - y.m)

\* the order of two floats, 2 when one of them is NaN
Order(x, y) == The({IF IsNaN(a) \/ IsNaN(b) THEN 2 ELSE Cmp(a, b) : a \in {x}, b \in {y}})

\* Python's comparisons: every comparison with NaN is false
FLt(x, y) == Order(x, y) = -1
FLe(x, y) == Order(x, y) \in {-1, 0}
FGt(x, y) == Order(x, y) = 1
FGe(x, y) == Order(x, y) \in {0, 1}
FEq(x, y) == Order(x, y) = 0

\* the decimal literal n * 10^-k
Dec(n, k) == FDiv(FromInt(n), FromInt(10^k))

Half == Dec(5, 1)
Milli == Dec(1, 3)
One == FromInt(1)

\* a finite x rounded to the nearest integer, |x| < 2^23
RoundInt(x) ==
    IF x.e >= 0 THEN x.m * 2^x.e
    ELSE IF -x.e > 25 THEN 0
    ELSE (2 * x.m + 2^(-x.e)) \div 2^(1 - x.e)

\* the natural logarithm of 2
Ln2 == Dec(693147181, 9)
\* the terms kept of the series of exp and of log
ExpTerms == 9
LnTerms == 6

RECURSIVE ExpSeries(_, _, _)
\* 1 + r/1 * (1 + r/2 * (... (1 + r/n * acc))): the series of exp(r), summed
\* from its last term; acc is the sum of the terms after the n-th
ExpSeries(r, n, acc) ==
    IF acc = Raised \/ n = 0 THEN acc
    ELSE ExpSeries(r, n - 1, FAdd(One, FMul(FDiv(r, FromInt(n)), acc)))

\* exp(x) = 2^k * exp(x - k * ln 2)
ExpReduced(x, k) ==
    The({[m |-> y.m, e |-> y.e + k] :
         y \in {ExpSeries(FSub(x, FMul(FromInt(k), Ln2)), ExpTerms, One)}})

\* np.exp of an x that is not finite
ExpSpecial(x) ==
    IF ~IsNumber(x) THEN Raised
    ELSE IF IsNaN(x) THEN NaN
    ELSE IF x = Inf THEN Inf
    ELSE Zero

ExpV(x) ==
    IF x.e = SpecialExp THEN ExpSpecial(x)
    ELSE IF x.m = 0 THEN One
    ELSE IF x.e >= 0 THEN (IF x.m > 0 THEN Inf ELSE Zero)
    ELSE The({ExpReduced(x, RoundInt(q)) : q \in {FDiv(x, Ln2)}})

\* np.exp
FExp(x) == The({ExpV(a) : a \in {x}})

RECURSIVE LnSeries(_, _, _)
\* 1 + z2 * (1/3 + z2 * (... (1/(2n-1) + z2 * acc))): the series of
\* atanh(z)/z with z2 = z*z, summed from its last term
LnSeries(z2, n, acc) ==
    IF acc = Raised \/ n = 0 THEN acc
    ELSE LnSeries(z2, n - 1, FAdd(FDiv(One, FromInt(2 * n - 1)), FMul(z2, acc)))

\* log(f * 2^k) = k * log(2) + 2 * atanh(z), z = (f - 1) / (f + 1)
LnReduced(f, k) ==
    The({FAdd(FMul(FromInt(k), Ln2),
              FMul(FMul(FromInt(2), z), LnSeries(FMul(z, z), LnTerms, Zero))) :
         z \in {FDiv(FSub(f, One), FAdd(f, One))}})

\* log of a finite x > 0: x = f * 2^k with f in [0.7, 1.42)
FLn(x) ==
    IF x.m < 11863283
    THEN LnReduced([m |-> x.m, e |-> 1 - MantBits], x.e + MantBits - 1)
    ELSE LnReduced([m |-> x.m, e |-> -MantBits], x.e + MantBits)

PowV(x, p) ==
    IF x.e = SpecialExp
    THEN (IF ~IsNumber(x) THEN Raised ELSE IF IsNaN(x) THEN NaN ELSE Inf)
    ELSE IF x.m = 0 THEN (IF p.m < 0 THEN Raised ELSE Zero)
    ELSE IF x.m < 0 THEN NaN
    ELSE FExp(FMul(p, FLn(x)))

\* x ** p: a negative base gives NaN (numpy floats), zero to a negative
\* power raises ZeroDivisionError
FPow(x, p) == The({PowV(a, p) : a \in {x}})

(***************************************************************************)
(* Curve families: the closed-form equations                               *)
(***************************************************************************)
BreastHeight == Dec(45, 1)
King_a0 == Dec(-954038, 6)
King_a1 == Dec(109757, 6)
King_b0 == Dec(558178, 7)
King_b1 == Dec(792236, 8)
King_c0 == Dec(-733819, 9)
King_c1 == Dec(197693, 9)

\* DF_King_SiteCurve.height
King_height(bha, si) ==
    LET z50 == FDiv(FromInt(2500), FSub(si, BreastHeight))
        a == FAdd(King_a0, FMul(King_a1, z50))
        b == FAdd(King_b0, FMul(King_b1, z50))
        c == FAdd(King_c0, FMul(King_c1, z50))
    IN FAdd(FDiv(FMul(bha, bha),
                 FAdd(FAdd(a, FMul(b, bha)), FMul(c, FMul(bha, bha)))),
            BreastHeight)

\* a variant of King_site_index that leaves out the 4.5 ft of breast height
King_site_index_no_offset(bha, ht) ==
    LET i == FDiv(FMul(bha, bha), FSub(ht, BreastHeight))
        j == FSub(FSub(FSub(i, King_a0), FMul(King_b0, bha)),
                  FMul(King_c0, FMul(bha, bha)))
        k == FAdd(FAdd(King_a1, FMul(King_b1, bha)), FMul(King_c1, FMul(bha, bha)))
    IN FMul(FromInt(2500), FDiv(k, j))

\* DF_King_SiteCurve.site_index
King_site_index(bha, ht) ==
    LET i == FDiv(FMul(bha, bha), FSub(ht, BreastHeight))
        j == FSub(FSub(FSub(i, King_a0), FMul(King_b0, bha)),
                  FMul(King_c0, FMul(bha, bha)))
        k == FAdd(FAdd(King_a1, FMul(King_b1, bha)), FMul(King_c1, FMul(bha, bha)))
    IN FAdd(BreastHeight, FMul(FromInt(2500), FDiv(k, j)))

Wiley_a0 == Dec(1394, 4)
Wiley_a1 == Dec(137, 4)
Wiley_a2 == Dec(7, 5)
Wiley_b0 == Dec(-17307, 4)
Wiley_b1 == Dec(-616, 4)
Wiley_b2 == Dec(192, 5)

\* WH_Wiley_SiteCurve.height
Wiley_height(bha, si) ==
    LET z == FDiv(FromInt(2500), FSub(si, BreastHeight))
        i == FAdd(FAdd(Wiley_a0, FMul(Wiley_a1, bha)), FMul(Wiley_a2, FMul(bha, bha)))
        j == FAdd(FAdd(Wiley_b0, FMul(Wiley_b1, bha)), FMul(Wiley_b2, FMul(bha, bha)))
    IN FAdd(FDiv(FMul(bha, bha), FAdd(FMul(z, i), j)), BreastHeight)

\* WH_Wiley_SiteCurve.site_index: an exception in the formula is logged and
\* turned into NaN
Wiley_site_index(bha, ht) ==
    LET x == FAdd(FAdd(Wiley_a0, FMul(Wiley_a1, bha)), FMul(Wiley_a2, FMul(bha, bha)))
        y == FAdd(FAdd(Wiley_b0, FMul(Wiley_b1, bha)), FMul(Wiley_b2, FMul(bha, bha)))
        h == FSub(ht, BreastHeight)
        si == FAdd(FMul(FromInt(2500),
                        FDiv(FMul(h, x), FSub(FMul(bha, bha), FMul(h, y)))),
                   BreastHeight)
    IN IF IsRaised(si) THEN NaN ELSE si

Harrington_a == Dec(595864, 4)
Harrington_b == Dec(7953, 4)
Harrington_c == Dec(1940, 6)
Harrington_d == Dec(-7403, 7)
Harrington_f == Dec(9198, 4)

\* (a + b * si) * (1.0 - np.exp((c + d * si) * bha)) ** f
Harrington_growth(bha, si) ==
    FMul(FAdd(Harrington_a, FMul(Harrington_b, si)),
         FPow(FSub(One, FExp(FMul(FAdd(Harrington_c, FMul(Harrington_d, si)), bha))),
              Harrington_f))

\* RA_Harrington_SiteCurve.height
Harrington_height(bha, si) ==
    FSub(FAdd(si, Harrington_growth(bha, si)), Harrington_growth(FromInt(20), si))

\* x * x * x
Cube(x) == FMul(x, FMul(x, x))

\* RA_Harrington_SiteCurve.site_index_direct
Harrington_site_index_direct(bha, ht) ==
    IF FLe(bha, Zero) THEN Zero
    ELSE LET a == FSub(FAdd(FSub(Dec(541857, 4), FMul(Dec(46170, 4), bha)),
                            FMul(Dec(11065, 5), FMul(bha, bha))),
                       FMul(Dec(76335, 8), Cube(bha)))
             b == FAdd(FSub(Dec(125934, 5), FMul(Dec(12989, 6), bha)),
                       FMul(Dec(35220, 4), Cube(FDiv(One, bha))))
         IN FAdd(a, FMul(b, ht))

Curtis_b0 == Dec(6192, 4)
Curtis_b1 == Dec(-53394, 4)
Curtis_b2 == Dec(24029, 2)
Curtis_b3 == Dec(33689, 1)

\* DF_Curtis_SiteCurve.height
Curtis_height(bha, si) ==
    LET s == FSub(si, BreastHeight)
        p == FPow(bha, Dec(-14, 1))
    IN FAdd(FDiv(s, FAdd(FAdd(FAdd(Curtis_b0, FDiv(Curtis_b1, s)),
                              FMul(Curtis_b2, p)),
                         FMul(FDiv(Curtis_b3, s), p))),
            BreastHeight)

(***************************************************************************)
(* Height functions handed to the searches.  Besides the curve families,   *)
(* the stand-alone searches take any callable: "sum" rises with age and    *)
(* site index, "below" is "sum" lowered by 400 (negative over the default  *)
(* bracket), "fall" falls with site index and "nan" is undefined           *)
(* everywhere.                                                             *)
(***************************************************************************)
Sum_height(bha, si) == FAdd(bha, si)
Below_height(bha, si) == FSub(FAdd(bha, si), FromInt(400))
Fall_height(bha, si) == FSub(FromInt(300), si)
Nan_height(bha, si) == NaN

\* ht_func(bha, si)
HtFunc(f, bha, si) ==
    CASE f = "king_1966" -> King_height(bha, si)
      [] f = "wiley_1978" -> Wiley_height(bha, si)
      [] f = "harrington_1986" -> Harrington_height(bha, si)
      [] f = "curtis_1974" -> Curtis_height(bha, si)
      [] f = "sum" -> Sum_height(bha, si)
      [] f = "below" -> Below_height(bha, si)
      [] f = "fall" -> Fall_height(bha, si)
      [] f = "nan" -> Nan_height(bha, si)

(***************************************************************************)
(* State: the curve object constructed, if any, and the call in progress.  *)
(* The variables carry the names of the parameters and locals of find_si   *)
(* and find_bha.  A call of the height function is a step of its own: the  *)
(* caller stops at the call (called = FALSE), ht_func_call evaluates the   *)
(* function into ht_val, and the caller goes on from there.                *)
(***************************************************************************)
VARIABLES
    pc,         \* the statement the call in progress is at; "idle", "done"
    self,       \* the SiteCurve object, NoCurve before one is constructed
    op,         \* the function or method the caller called
    ht_func,    \* the height function in use
    bha, si, ht,
    kwargs,     \* the keyword arguments the caller passed to SiteCurve.find_si
    min_si, max_si, max_iters, ht_err, mid_si, mid_ht,
    min_bha, max_bha, max_steps, first, last, check_ht, mid,
    min_ht, max_ht,
    i,
    called,     \* the height function called at pc has returned
    ht_val,     \* what it returned
    evals,      \* calls of ht_func made by the call in progress
    met,        \* the find_si loop left through its break (tolerance met)
    warned,     \* logging.warn was called
    ret,        \* what the call gave back: a value or an exception
    case,       \* the (age, site index) pair the height searched for came from
    bracket,    \* the bracket [min_si, max_si] find_si was called with
    batch,      \* the call of v_height or v_site_index in progress: the
                \* argument arrays xs and ys and the results so far
    smc_loaded, \* 'smc_dfsite' in sys.modules
    smc_objs,   \* the DF_SMC_SiteCurve objects constructed
    smc_log,    \* the calls of the smc_dfsite functions, in order
    smc_calls,  \* the constructor and method calls made so far
    smc_ret,    \* how the last of them ended
    fa,         \* the call of find_age: its arguments and its locals
    cli         \* the run of the command line: its options, the curve it
                \* made, the lines it printed and the exception it ended with

args == <<op, ht_func, bha, si, ht, kwargs>>
si_locals == <<min_si, max_si, max_iters, mid_si, mid_ht, met, bracket>>
bha_locals == <<min_bha, max_bha, max_steps, first, last, check_ht, mid, warned>>
\* what only the callers of the scalar functions change
smc_vars == <<smc_loaded, smc_objs, smc_log, smc_calls, smc_ret>>
\* the variables of the other parts of the package
apart == <<smc_vars, fa, cli>>
outer == <<batch, apart>>
vars == <<pc, self, args, si_locals, bha_locals, ht_err, min_ht, max_ht, i,
          called, ht_val, evals, ret, case, outer>>
\* the variables of the curves and the searches
curve_vars == <<pc, self, args, si_locals, bha_locals, ht_err, min_ht, max_ht, i,
                called, ht_val, evals, ret, case, batch>>

\* what the calls on DF_SMC_SiteCurve objects leave alone
beside_smc == <<curve_vars, smc_loaded, fa, cli>>
\* what find_age leaves alone
beside_fa == <<curve_vars, smc_vars, cli>>
\* what the command line leaves alone
beside_cli == <<curve_vars, smc_vars, fa>>

NoRet == [kind |-> "none", val |-> Zero, exc |-> ""]
Return(v) == [kind |-> "return", val |-> v, exc |-> ""]
Raise(e) == [kind |-> "raise", val |-> Zero, exc |-> e]
\* reading a local: a local never assigned raises UnboundLocalError
ReturnLocal(v) == IF v = Unbound THEN Raise("UnboundLocalError") ELSE Return(v)
NoCase == [bha |-> Zero, si |-> Zero]
\* no keyword arguments
NoKwargs == [max_iters |-> -1, ht_err |-> None]
\* no batch call in progress
NoBatch == [kind |-> "none", xs |-> <<>>, ys |-> <<>>, out |-> <<>>]
NoCurve == [name |-> "none", abbreviation |-> "", index_age |-> 0,
            index_bha |-> TRUE, si_incr |-> 20, units |-> "ft", min_bha |-> Zero, max_bha |-> Zero,
            min_si |-> Zero, max_si |-> Zero, max_ht |-> Unbound, min_ht |-> Unbound]

\* the curves and the searches before any call
CurveInit ==
    /\ pc = "idle"
    /\ self = NoCurve
    /\ op = "none"
    /\ ht_func = "none"
    /\ bha = Zero /\ si = Zero /\ ht = Zero
    /\ kwargs = NoKwargs
    /\ min_si = Zero /\ max_si = Zero /\ max_iters = 0 /\ ht_err = Zero
    /\ mid_si = Unbound /\ mid_ht = Unbound
    /\ min_bha = Zero /\ max_bha = Zero /\ max_steps = 0
    /\ first = Zero /\ last = Zero /\ check_ht = Unbound /\ mid = Unbound
    /\ min_ht = Unbound /\ max_ht = Unbound
    /\ i = 0 /\ called = FALSE /\ ht_val = Unbound
    /\ evals = 0 /\ met = FALSE /\ warned = FALSE
    /\ ret = NoRet
    /\ case = NoCase
    /\ bracket = [lo |-> Zero, hi |-> Zero]
    /\ batch = NoBatch

\* the identities of the DF_SMC_SiteCurve objects
SMC_Ids == {"a", "b"}
NoObj == [made |-> FALSE]
\* no DF_SMC_SiteCurve object yet, no engine call yet
SMC_Idle ==
    /\ smc_objs = [o \in SMC_Ids |-> NoObj]
    /\ smc_log = <<>>
    /\ smc_calls = 0
    /\ smc_ret = [op |-> "none", by |-> "none", kind |-> "none", exc |-> ""]

\* find_age not called yet
FA_Idle == fa = [pc |-> "idle"]
\* no command run yet
CLI_Idle == cli = [pc |-> "idle"]

Init ==
    /\ CurveInit
    /\ smc_loaded = TRUE
    /\ SMC_Idle
    /\ FA_Idle
    /\ CLI_Idle

(***************************************************************************)
(* The call of the height function                                         *)
(***************************************************************************)
\* the statements that call the height function
HtCalls == {"init_max", "init_min", "height", "find_si_min", "find_si_max",
            "find_si_mid", "find_bha_mid"}

\* the arguments of the call at pc
HtArgs ==
    CASE pc = "init_max" -> [bha |-> self.max_bha, si |-> self.max_si]
      [] pc = "init_min" -> [bha |-> self.min_bha, si |-> self.min_si]
      [] pc = "height" -> [bha |-> bha, si |-> si]
      [] pc = "find_si_min" -> [bha |-> bha, si |-> min_si]
      [] pc = "find_si_max" -> [bha |-> bha, si |-> max_si]
      [] pc = "find_si_mid" -> [bha |-> bha, si |-> mid_si]
      [] pc = "find_bha_mid" -> [bha |-> mid, si |-> si]

\* ht_func(bha, si) or self.height(bha, si): an exception ends the call in
\* progress
ht_func_call ==
    /\ pc \in HtCalls
    /\ ~called
    /\ evals' = evals + 1
    /\ \E a \in {HtArgs} : \E v \in {HtFunc(ht_func, a.bha, a.si)} :
          IF IsRaised(v)
          THEN /\ ret' = Raise("ZeroDivisionError")
               /\ pc' = "done"
               /\ UNCHANGED <<called, ht_val>>
          ELSE /\ ht_val' = v
               /\ called' = TRUE
               /\ UNCHANGED <<pc, ret>>
    /\ UNCHANGED <<self, args, si_locals, bha_locals, ht_err, min_ht, max_ht, i, case, outer>>

(***************************************************************************)
(* find_si                                                                 *)
(***************************************************************************)
\* -1 * np.Inf, the site index of a height below the bracket
\* (BelowRange_sign: the variant that loses the sign)
BelowRange_sign == Inf
BelowRange == FMul(FromInt(-1), Inf)
\* np.Inf, the site index of a height above the bracket
\* (AboveRange_sign: the variant with the sign of the low sentinel)
AboveRange_sign == NegInf
AboveRange == Inf

\* find_si is called: the guard on ht
find_si_enter(name, f, b, h, lo, hi, iters, err) ==
    /\ op' = name /\ ht_func' = f /\ bha' = b /\ ht' = h
    /\ min_si' = lo /\ max_si' = hi /\ max_iters' = iters /\ ht_err' = err
    /\ bracket' = [lo |-> lo, hi |-> hi]
    /\ mid_si' = Unbound /\ mid_ht' = Unbound /\ met' = FALSE
    /\ min_ht' = Unbound /\ max_ht' = Unbound
    /\ i' = 0 /\ evals' = 0 /\ called' = FALSE /\ ht_val' = Unbound
    /\ IF h = None \/ ~IsFinite(h) \/ FLe(h, Zero)
       THEN ret' = Return(BelowRange) /\ pc' = "done"
       ELSE ret' = NoRet /\ pc' = "find_si_min"
    /\ UNCHANGED <<self, si, bha_locals>>

\* min_ht = ht_func(bha, min_si) has returned: the check of the low bound
find_si_low ==
    /\ pc = "find_si_min"
    /\ called
    /\ min_ht' = ht_val
    /\ called' = FALSE
    /\ IF FGt(ht_val, ht)
       THEN ret' = Return(BelowRange) /\ pc' = "done"
       ELSE pc' = "find_si_max" /\ UNCHANGED ret
    /\ UNCHANGED <<self, args, si_locals, bha_locals, ht_err, max_ht, i, ht_val,
                   evals, case, outer>>

\* max_ht = ht_func(bha, max_si) has returned: the check of the high bound
find_si_high ==
    /\ pc = "find_si_max"
    /\ called
    /\ max_ht' = ht_val
    /\ called' = FALSE
    /\ i' = 0
    /\ IF FLt(ht_val, ht)
       THEN ret' = Return(AboveRange) /\ pc' = "done"
       ELSE pc' = "find_si_loop" /\ UNCHANGED ret
    /\ UNCHANGED <<self, args, si_locals, bha_locals, ht_err, min_ht, ht_val,
                   evals, case, outer>>

\* a variant of Midpoint without the halving
Midpoint_sum(x, y) == FAdd(x, y)

\* (x + y) * 0.5
Midpoint(x, y) == FMul(FAdd(x, y), Half)

\* the loop of find_si goes on: the next midpoint
find_si_mid ==
    /\ pc = "find_si_loop"
    /\ i < max_iters
    /\ mid_si' = Midpoint(min_si, max_si)
    /\ pc' = "find_si_mid"
    /\ UNCHANGED <<self, args, min_si, max_si, max_iters, mid_ht, met, bracket,
                   bha_locals, ht_err, min_ht, max_ht, i, called, ht_val, evals,
                   ret, case, outer>>

\* a variant of Untouched in which the search narrows the bracket of the
\* curve object itself
Untouched_narrowed(c, lo, hi) ==
    IF c = NoCurve THEN c ELSE [c EXCEPT !.min_si = lo, !.max_si = hi]

\* the curve object after a pass of the search: min_si and max_si of the
\* search are its own, the object is as it was
Untouched(c, lo, hi) == c

\* mid_ht = ht_func(bha, mid_si) has returned: the rest of the pass
find_si_check ==
    /\ pc = "find_si_mid"
    /\ called
    /\ mid_ht' = ht_val
    /\ called' = FALSE
    /\ IF FEq(ht_val, NaN)
       THEN /\ ret' = Return(NaN)
            /\ pc' = "done"
            /\ UNCHANGED <<min_si, max_si, i, met>>
       ELSE IF FLe(FAbs(FSub(ht, ht_val)), ht_err)
       THEN /\ met' = TRUE
            /\ ret' = Return(mid_si)
            /\ pc' = "done"
            /\ UNCHANGED <<min_si, max_si, i>>
       ELSE /\ max_si' = IF FGt(ht_val, ht) THEN mid_si ELSE max_si
            /\ min_si' = IF ~FGt(ht_val, ht) /\ FLt(ht_val, ht) THEN mid_si ELSE min_si
            /\ i' = i + 1
            /\ pc' = "find_si_loop"
            /\ UNCHANGED <<ret, met>>
    /\ self' = Untouched(self, min_si', max_si')
    /\ UNCHANGED <<args, max_iters, mid_si, bracket, bha_locals, ht_err,
                   min_ht, max_ht, ht_val, evals, case, outer>>

\* the loop of find_si ran out of passes: return mid_si
find_si_return ==
    /\ pc = "find_si_loop"
    /\ ~(i < max_iters)
    /\ ret' = ReturnLocal(mid_si)
    /\ pc' = "done"
    /\ UNCHANGED <<self, args, si_locals, bha_locals, ht_err, min_ht, max_ht, i,
                   called, ht_val, evals, case, outer>>

(***************************************************************************)
(* find_bha                                                                *)
(***************************************************************************)
\* ht <= min_ht, the test of the lower clamp
\* (ht_below_strict: the variant that lets ht = min_ht into the loop)
ht_below_strict(h, lo_ht) == FLt(h, lo_ht)
ht_below(h, lo_ht) == FLe(h, lo_ht)

\* a variant of Tolerance that keeps what it is given
Tolerance_kept(err) == err

\* the tolerance find_bha works with
Tolerance(err) == IF FLe(err, Zero) THEN Milli ELSE err

\* find_bha is called: the clamps, and the seed of check_ht
find_bha_enter(name, f, s, h, err, steps, lo, hi, lo_ht, hi_ht) ==
    /\ op' = name /\ ht_func' = f /\ si' = s /\ ht' = h
    /\ min_bha' = lo /\ max_bha' = hi /\ min_ht' = lo_ht /\ max_ht' = hi_ht
    /\ max_steps' = steps
    /\ first' = lo
    /\ last' = hi
    /\ ht_err' = Tolerance(err)
    /\ mid' = Unbound
    /\ i' = 0 /\ evals' = 0 /\ called' = FALSE /\ ht_val' = Unbound
    /\ IF ht_below(h, lo_ht)
       THEN /\ warned' = TRUE
            /\ ret' = Return(lo)
            /\ pc' = "done"
            /\ check_ht' = Unbound
       ELSE IF FGe(h, hi_ht)
       THEN /\ warned' = TRUE
            /\ ret' = Return(hi)
            /\ pc' = "done"
            /\ check_ht' = Unbound
       ELSE /\ warned' = FALSE
            /\ ret' = NoRet
            /\ pc' = "find_bha_loop"
            /\ check_ht' = FAdd(FAdd(h, Tolerance(err)), FromInt(999))
    /\ UNCHANGED <<self, bha, si_locals>>

\* the condition of the loop of find_bha
find_bha_running ==
    FGt(FAbs(FSub(check_ht, ht)), ht_err) /\ i < max_steps

\* the loop of find_bha goes on: the next midpoint
find_bha_mid ==
    /\ pc = "find_bha_loop"
    /\ find_bha_running
    /\ mid' = Midpoint(first, last)
    /\ pc' = "find_bha_mid"
    /\ UNCHANGED <<self, args, si_locals, min_bha, max_bha, max_steps, first, last,
                   check_ht, warned, ht_err, min_ht, max_ht, i, called, ht_val,
                   evals, ret, case, outer>>

\* check_ht = ht_func(mid, si) has returned: the rest of the pass
find_bha_check ==
    /\ pc = "find_bha_mid"
    /\ called
    /\ check_ht' = ht_val
    /\ called' = FALSE
    /\ last' = IF FLt(ht, ht_val) THEN mid ELSE last
    /\ first' = IF FLt(ht, ht_val) THEN first ELSE mid
    /\ i' = i + 1
    /\ pc' = "find_bha_loop"
    /\ UNCHANGED <<self, args, si_locals, min_bha, max_bha, max_steps, mid, warned,
                   ht_err, min_ht, max_ht, ht_val, evals, ret, case, outer>>

\* the loop of find_bha ended: return mid
find_bha_return ==
    /\ pc = "find_bha_loop"
    /\ ~find_bha_running
    /\ ret' = ReturnLocal(mid)
    /\ pc' = "done"
    /\ UNCHANGED <<self, args, si_locals, bha_locals, ht_err, min_ht, max_ht, i,
                   called, ht_val, evals, case, outer>>

(***************************************************************************)
(* SiteCurve: the constructor and the methods                              *)
(***************************************************************************)
\* SiteCurve.__init__ up to the two calls of self.height
SiteCurve_init(name, index_age, minb, maxb, mins, maxs) ==
    [name |-> name, abbreviation |-> name, index_age |-> index_age,
     index_bha |-> TRUE, si_incr |-> 20, units |-> "ft",
     min_bha |-> FromInt(minb), max_bha |-> FromInt(maxb),
     min_si |-> FromInt(mins), max_si |-> FromInt(maxs),
     max_ht |-> Unbound, min_ht |-> Unbound]

DF_King_SiteCurve == SiteCurve_init("king_1966", 50, 10, 130, 40, 160)
WH_Wiley_SiteCurve == SiteCurve_init("wiley_1978", 50, 0, 150, 40, 160)
\* min_si and max_si are the defaults of SiteCurve.__init__
RA_Harrington_SiteCurve == SiteCurve_init("harrington_1986", 20, 0, 150, 10, 250)
DF_Curtis_SiteCurve == SiteCurve_init("curtis_1974", 100, 5, 250, 50, 250)

\* the families that define site_index themselves
ClosedForm == {"king_1966", "wiley_1978"}

\* cls.site_index(bha, ht) of a family that defines it
Closed_site_index(c, b, h) ==
    CASE c = "king_1966" -> King_site_index(b, h)
      [] c = "wiley_1978" -> Wiley_site_index(b, h)

\* the defaults of find_si: max_iters=20, ht_err=0.1
\* (DefaultHtErr_loose: a tolerance of 5 ft)
DefaultMaxIters == 20
DefaultHtErr_loose == FromInt(5)
DefaultHtErr == Dec(1, 1)
\* the defaults of SiteCurve.find_bha: ht_err=0.1, max_steps=50
\* (DefaultBhaHtErr_loose: a tolerance of 5 ft)
DefaultMaxSteps == 50
DefaultBhaHtErr_loose == FromInt(5)
DefaultBhaHtErr == Dec(1, 1)

\* a curve object is constructed: the family's __init__
construct ==
    /\ pc = "idle"
    /\ self = NoCurve
    /\ \E c \in {DF_King_SiteCurve, WH_Wiley_SiteCurve, RA_Harrington_SiteCurve,
                DF_Curtis_SiteCurve} :
          /\ self' = c
          /\ ht_func' = c.name
    /\ op' = "__init__"
    /\ pc' = "init_max"
    /\ UNCHANGED <<bha, si, ht, kwargs, si_locals, bha_locals, ht_err, min_ht,
                   max_ht, i, called, ht_val, evals, ret, case, outer>>

\* self.max_ht = self.height(self.max_bha, self.max_si)
init_max_ht ==
    /\ pc = "init_max"
    /\ called
    /\ self' = [self EXCEPT !.max_ht = ht_val]
    /\ called' = FALSE
    /\ pc' = "init_min"
    /\ UNCHANGED <<args, si_locals, bha_locals, ht_err, min_ht, max_ht, i, ht_val,
                   evals, ret, case, outer>>

\* self.min_ht = self.height(self.min_bha, self.min_si)
init_min_ht ==
    /\ pc = "init_min"
    /\ called
    /\ self' = [self EXCEPT !.min_ht = ht_val]
    /\ called' = FALSE
    /\ pc' = "idle"
    /\ UNCHANGED <<args, si_locals, bha_locals, ht_err, min_ht, max_ht, i, ht_val,
                   evals, ret, case, outer>>

\* a curve object exists and no call is in progress
Ready == pc = "idle" /\ self # NoCurve

\* a method that computes its value in one step, without the height function
Direct(name, b, s, h, v) ==
    /\ op' = name /\ bha' = b /\ si' = s /\ ht' = h
    /\ kwargs' = NoKwargs
    /\ ret' = IF IsRaised(v) THEN Raise("ZeroDivisionError") ELSE Return(v)
    /\ pc' = "done"
    /\ evals' = 0
    /\ UNCHANGED <<self, ht_func, si_locals, bha_locals, ht_err, min_ht, max_ht, i,
                   called, ht_val>>

\* a variant of SiteCurve_find_si that hands the keyword arguments on
SiteCurve_find_si_kwargs(name, b, h, kw) ==
    /\ find_si_enter(name, self.name, b, h, self.min_si, self.max_si,
                     IF kw = NoKwargs THEN DefaultMaxIters ELSE kw.max_iters,
                     IF kw = NoKwargs THEN DefaultHtErr ELSE kw.ht_err)
    /\ kwargs' = kw

\* SiteCurve.find_si(bha, ht, **kwargs): the keyword arguments are dropped
SiteCurve_find_si(name, b, h, kw) ==
    /\ find_si_enter(name, self.name, b, h, self.min_si, self.max_si,
                     DefaultMaxIters, DefaultHtErr)
    /\ kwargs' = kw

\* a variant of SiteCurve_site_index that returns the direct fit of Harrington
SiteCurve_site_index_direct_fit(name, b, h) ==
    Direct(name, b, si, h, Harrington_site_index_direct(b, h))

\* SiteCurve.site_index of a scalar age and height, inherited by the families
\* that do not define site_index
SiteCurve_site_index(name, b, h) ==
    SiteCurve_find_si(name, b, h, NoKwargs)

\* SiteCurve.find_bha
SiteCurve_find_bha(name, s, h, err, steps) ==
    /\ find_bha_enter(name, self.name, s, h, err, steps, self.min_bha, self.max_bha,
                      self.min_ht, self.max_ht)
    /\ kwargs' = NoKwargs

\* SiteCurve.age
SiteCurve_age(name, s, h) ==
    SiteCurve_find_bha(name, s, h, DefaultBhaHtErr, DefaultMaxSteps)

(***************************************************************************)
(* The callers: what the model calls, and with what                        *)
(***************************************************************************)
MaxIters == 3
MaxSteps == 3
AgeStep == 3
SiStep == 6

\* lo, lo + step, ... up to hi, and hi
Grid(lo, hi, step) ==
    {FromInt(lo + k * step) : k \in 0..((hi - lo) \div step)} \cup {FromInt(hi)}

SearchFuncs == {"king_1966", "sum", "below", "fall", "nan"}
SearchAges == {FromInt(10), FromInt(50)}
SearchSis == {FromInt(40), FromInt(100)}
SearchNumbers == {FromInt(n) : n \in {-50, 0, 3, 60, 100, 200, 350, 1000}}
SearchHeights == {None, NaN, Inf, NegInf} \cup SearchNumbers
\* the default bracket of find_si and the bracket of the King curve
SearchBrackets == {[lo |-> FromInt(5), hi |-> FromInt(300)],
                   [lo |-> FromInt(40), hi |-> FromInt(160)]}
SearchTolerances == {Dec(1, 1), Dec(5, 2), Zero, FromInt(-1)}
\* the default age and height bounds of find_bha, narrower ones, and height
\* bounds that coincide
SearchBounds == {[min_bha |-> Zero, max_bha |-> FromInt(500),
                  min_ht |-> Zero, max_ht |-> FromInt(500)],
                 [min_bha |-> FromInt(10), max_bha |-> FromInt(130),
                  min_ht |-> FromInt(12), max_ht |-> FromInt(260)],
                 [min_bha |-> Zero, max_bha |-> FromInt(500),
                  min_ht |-> FromInt(100), max_ht |-> FromInt(100)]}

\* the ages and site indexes of a curve's domain that are tried
CurveAges(c) ==
    CASE c = "king_1966" -> Grid(10, 130, AgeStep)
      [] c = "wiley_1978" -> Grid(0, 150, AgeStep) \cup {FromInt(1)}
      [] c = "harrington_1986" -> Grid(10, 50, AgeStep) \cup {FromInt(20), FromInt(35)}
      [] c = "curtis_1974" -> Grid(5, 250, 20 * AgeStep)
CurveSis(c) ==
    CASE c = "harrington_1986" -> Grid(30, 100, SiStep) \cup {FromInt(50), FromInt(70)}
      [] c = "curtis_1974" -> Grid(50, 250, 10 * SiStep)
      [] OTHER -> Grid(40, 160, SiStep)
\* arguments outside the domain of the equations
BadAges == {FromInt(-5), Zero}
\* the ages outside the domain a curve is tried with (a negative age to the
\* power -1.4 is a complex number: not tried)
BadAgesOf(c) == IF c = "curtis_1974" THEN {Zero} ELSE BadAges
\* the keyword arguments SiteCurve.find_si is tried with
SearchKwargs == {NoKwargs, [max_iters |-> MaxIters, ht_err |-> FromInt(5)]}
BadSis == {FromInt(-10), Zero, FromInt(4), BreastHeight}
\* heights on no curve
OffHeights == {Zero, BreastHeight, FromInt(5), FromInt(300), FromInt(1000)}
\* the families whose find_si and find_bha are tried
SearchedFamilies == {"king_1966"}

\* the module's find_si, called with a function
call_find_si ==
    /\ pc = "idle"
    /\ self = NoCurve
    /\ \E f \in SearchFuncs, b \in SearchAges, h \in SearchHeights,
          br \in SearchBrackets, n \in 0..MaxIters, err \in SearchTolerances :
            find_si_enter("find_si", f, b, h, br.lo, br.hi, n, err)
    /\ kwargs' = NoKwargs
    /\ case' = NoCase
    /\ UNCHANGED outer

\* the module's find_bha, called with a function
call_find_bha ==
    /\ pc = "idle"
    /\ self = NoCurve
    /\ \E f \in SearchFuncs, s \in SearchSis, h \in SearchNumbers \cup {NaN},
          err \in SearchTolerances, n \in 0..MaxSteps, bd \in SearchBounds :
            find_bha_enter("find_bha", f, s, h, err, n,
                           bd.min_bha, bd.max_bha, bd.min_ht, bd.max_ht)
    /\ kwargs' = NoKwargs
    /\ case' = NoCase
    /\ UNCHANGED outer

\* curve.height(bha, si), inside and outside the domain
call_height ==
    /\ Ready
    /\ \E b \in CurveAges(self.name) \cup BadAgesOf(self.name),
          s \in CurveSis(self.name) \cup BadSis :
            bha' = b /\ si' = s
    /\ op' = "height"
    /\ pc' = "height"
    /\ ret' = NoRet
    /\ evals' = 0
    /\ case' = NoCase
    /\ UNCHANGED outer
    /\ UNCHANGED <<self, ht_func, ht, kwargs, si_locals, bha_locals, ht_err, min_ht,
                   max_ht, i, called, ht_val>>

\* curve.height has returned
height_return ==
    /\ pc = "height"
    /\ called
    /\ ret' = Return(ht_val)
    /\ called' = FALSE
    /\ pc' = "done"
    /\ UNCHANGED <<self, args, si_locals, bha_locals, ht_err, min_ht, max_ht, i,
                   ht_val, evals, case, outer>>

\* curve.height(bha, si) returned the height of a point of the domain
OnCurve ==
    /\ pc = "done" /\ op = "height" /\ ret.kind = "return"
    /\ batch = NoBatch
    /\ bha \in CurveAges(self.name)
    /\ si \in CurveSis(self.name)

\* curve.site_index(bha, ht): with the height curve.height(bha, si) just gave,
\* or with an age outside the domain
call_site_index ==
    /\ \/ OnCurve /\ case' = [bha |-> bha, si |-> si]
       \/ Ready /\ case' = NoCase
    /\ \E b \in IF OnCurve THEN {bha} ELSE BadAgesOf(self.name),
          h \in IF OnCurve THEN {ret.val} ELSE OffHeights :
            IF self.name \in ClosedForm
            THEN /\ Direct("site_index", b, si, h, Closed_site_index(self.name, b, h))
            ELSE /\ SiteCurve_site_index("site_index", b, h)
    /\ UNCHANGED outer

\* RA_Harrington_SiteCurve.site_index_direct(bha, ht)
call_site_index_direct ==
    /\ Ready
    /\ self.name = "harrington_1986"
    /\ \E b \in CurveAges(self.name) \cup BadAges, h \in OffHeights :
          Direct("site_index_direct", b, si, h, Harrington_site_index_direct(b, h))
    /\ case' = NoCase
    /\ UNCHANGED outer

\* curve.find_si(bha, ht) with the height curve.height(bha, si) just gave
call_curve_find_si ==
    /\ OnCurve
    /\ self.name \in SearchedFamilies
    /\ \E kw \in SearchKwargs : SiteCurve_find_si("SiteCurve.find_si", bha, ret.val, kw)
    /\ case' = [bha |-> bha, si |-> si]
    /\ UNCHANGED outer

\* curve.find_bha(si, ht) with the height curve.height(bha, si) just gave
call_curve_find_bha ==
    /\ OnCurve
    /\ self.name \in SearchedFamilies
    /\ SiteCurve_find_bha("SiteCurve.find_bha", si, ret.val,
                          DefaultBhaHtErr, DefaultMaxSteps)
    /\ case' = [bha |-> bha, si |-> si]
    /\ UNCHANGED outer

\* curve.age(si, ht) with a height on no curve
call_curve_age ==
    /\ Ready
    /\ self.name \in ClosedForm
    /\ \E s \in CurveSis(self.name), h \in OffHeights :
          SiteCurve_age("SiteCurve.age", s, h)
    /\ case' = NoCase
    /\ UNCHANGED outer

(***************************************************************************)
(* v_height, v_site_index: np.vectorize over the scalar methods            *)
(***************************************************************************)
MaxLen == 2

\* the ages, site indexes and heights the argument arrays are made of
BatchAges(c) == {c.min_bha, FromInt(c.index_age)}
BatchSis == {FromInt(60), FromInt(100)}
BatchHeights == {FromInt(30), FromInt(100)}
\* the arrays of up to MaxLen elements of S
Arrays(S) == UNION {[1..n -> S] : n \in 0..MaxLen}

\* a batch method is called with two arrays of the same length
v_enter(name, kind, xs, ys) ==
    /\ batch' = [kind |-> kind, xs |-> xs, ys |-> ys, out |-> <<>>]
    /\ op' = name
    /\ pc' = "vectorize"
    /\ ret' = NoRet
    /\ evals' = 0
    /\ case' = NoCase
    /\ UNCHANGED <<self, ht_func, bha, si, ht, kwargs, si_locals, bha_locals, ht_err,
                   min_ht, max_ht, i, called, ht_val, apart>>

\* curve.v_height(bha, si)
call_v_height ==
    /\ Ready
    /\ \E xs \in Arrays(BatchAges(self)), ys \in Arrays(BatchSis) :
          /\ Len(xs) = Len(ys)
          /\ v_enter("v_height", "v_height", xs, ys)

\* curve.v_site_index(bha, ht), and the inherited curve.site_index(bha, ht)
\* called with arrays, which hands them to v_site_index
call_v_site_index ==
    /\ Ready
    /\ \E xs \in Arrays(BatchAges(self)), ys \in Arrays(BatchHeights),
          name \in {"v_site_index"}
                     \cup (IF self.name \in ClosedForm THEN {} ELSE {"site_index"}) :
          /\ Len(xs) = Len(ys)
          /\ v_enter(name, "v_site_index", xs, ys)

\* func = np.vectorize(...); func(xs, ys): with no otypes given, an array of
\* size 0 is refused
vectorize ==
    /\ pc = "vectorize"
    /\ IF Len(batch.xs) = 0
       THEN ret' = Raise("ValueError") /\ pc' = "v_done"
       ELSE pc' = "v_elem" /\ UNCHANGED ret
    /\ UNCHANGED <<self, args, si_locals, bha_locals, ht_err, min_ht, max_ht, i,
                   called, ht_val, evals, case, outer>>

\* the vectorized function calls the scalar method on the next pair of
\* elements
v_elem ==
    /\ pc = "v_elem"
    /\ \E x \in {batch.xs[Len(batch.out) + 1]}, y \in {batch.ys[Len(batch.out) + 1]} :
          IF batch.kind = "v_height"
          THEN /\ bha' = x /\ si' = y
               /\ pc' = "height"
               /\ ret' = NoRet
               /\ evals' = 0
               /\ UNCHANGED <<self, op, ht_func, ht, kwargs, si_locals, bha_locals,
                              ht_err, min_ht, max_ht, i, called, ht_val>>
          ELSE IF self.name \in ClosedForm
          THEN Direct(op, x, si, y, Closed_site_index(self.name, x, y))
          ELSE SiteCurve_site_index(op, x, y)
    /\ case' = NoCase
    /\ UNCHANGED outer

\* the scalar method has returned: its value is stored in the result array
v_collect ==
    /\ pc = "done"
    /\ batch.kind # "none"
    /\ IF ret.kind = "raise"
       THEN pc' = "v_done" /\ UNCHANGED batch
       ELSE /\ batch' = [batch EXCEPT !.out = Append(@, ret.val)]
            /\ pc' = IF Len(batch.out) + 1 = Len(batch.xs) THEN "v_done" ELSE "v_elem"
    /\ UNCHANGED <<self, args, si_locals, bha_locals, ht_err, min_ht, max_ht, i,
                   called, ht_val, evals, ret, case, apart>>

Next ==
    \/ construct
    \/ init_max_ht
    \/ init_min_ht
    \/ ht_func_call
    \/ call_find_si
    \/ find_si_low
    \/ find_si_high
    \/ find_si_mid
    \/ find_si_check
    \/ find_si_return
    \/ call_find_bha
    \/ find_bha_mid
    \/ find_bha_check
    \/ find_bha_return
    \/ call_height
    \/ height_return
    \/ call_site_index
    \/ call_site_index_direct
    \/ call_curve_find_si
    \/ call_curve_find_bha
    \/ call_curve_age
    \/ call_v_height
    \/ call_v_site_index
    \/ vectorize
    \/ v_elem
    \/ v_collect

Spec == Init /\ [][Next]_vars

(***************************************************************************)
(* DF_SMC_SiteCurve: the curve family that delegates to the smc_dfsite     *)
(* engine.  The engine is one module-level object shared by every curve    *)
(* object; what it computes is left open, the order of the calls made to   *)
(* it is what is modelled.                                                 *)
(***************************************************************************)
MaxCalls == 3

\* the keyword arguments the objects are constructed with: the defaults, and
\* others
SMC_Kwargs ==
    {[max_age |-> 100, units |-> "ft", convergence |-> "0.5/12", ht_plant |-> "1.4"],
     [max_age |-> 60, units |-> "M", convergence |-> "0.1", ht_plant |-> "2.0"]}

\* str.lower
Lower(u) ==
    CASE u = "M" -> "m"
      [] u = "FT" -> "ft"
      [] u \in {"FVS", "Fvs"} -> "fvs"
      [] u = "King_1966" -> "king_1966"
      [] u = "PN" -> "pn"
      [] u = "WC" -> "wc"
      [] u = "DF" -> "df"
      [] u = "RA" -> "ra"
      [] OTHER -> u

\* DF_SMC_SiteCurve.__init__ up to the call of SiteCurve.__init__, and the
\* arguments handed to it
DF_SMC_SiteCurve(kw) ==
    [made |-> TRUE, max_age |-> kw.max_age, units |-> Lower(kw.units),
     convergence |-> kw.convergence, ht_plant |-> kw.ht_plant,
     units_code |-> IF Lower(kw.units) = "ft" THEN 1 ELSE 2,
     index_age |-> 30, min_bha |-> 1, max_bha |-> 70, min_si |-> 10, max_si |-> 100]

\* a call of a function of smc_dfsite, made by object o (with fields c) in its
\* n-th call
EngineCall(fn, o, c, n, a) == [fn |-> fn, by |-> o, self |-> c, call |-> n, a |-> a]
Dfsite1(o, c, n) == EngineCall("dfsite1", o, c, n, <<c.max_age, c.units_code, c.convergence>>)
Dfsite2(o, c, n) == EngineCall("dfsite2", o, c, n, <<c.ht_plant>>)
Dfsite3d(o, c, n) == EngineCall("dfsite3d", o, c, n, <<2, 100, 300>>)
Dfsite3h(o, c, n, x, age) == EngineCall("dfsite3h", o, c, n, <<x, 1, age>>)
Dfsite4(o, c, n, tta) == EngineCall("dfsite4", o, c, n, <<tta>>)

\* what a method did: the engine calls it made and the exception it ended
\* with, if any
Did(entries, exc) == [entries |-> entries, exc |-> exc]
\* first x, then y unless x raised
Then(x, y) == IF x.exc # "" THEN x ELSE Did(x.entries \o y.entries, y.exc)

\* a variant of SMC_setup without the test of sys.modules
SMC_setup_unchecked(o, c, n, err) ==
    Did(<<Dfsite1(o, c, n), Dfsite2(o, c, n), Dfsite3d(o, c, n)>>,
        IF err # 0 THEN "ValueError" ELSE "")

\* DF_SMC_SiteCurve.setup with set_density(2, 100, 300); err is what dfsite3d
\* returns
SMC_setup(o, c, n, err) ==
    IF ~smc_loaded THEN Did(<<>>, "SystemError")
    ELSE Did(<<Dfsite1(o, c, n), Dfsite2(o, c, n), Dfsite3d(o, c, n)>>,
             IF err # 0 THEN "ValueError" ELSE "")

\* a variant of SMC_height that relies on the engine being set up already
SMC_height_no_setup(o, c, n, tta, s, err) ==
    Did(<<Dfsite3h(o, c, n, s, c.index_age), Dfsite4(o, c, n, tta)>>, "")

\* DF_SMC_SiteCurve.height
SMC_height(o, c, n, tta, s, err) ==
    Then(SMC_setup(o, c, n, err),
         Did(<<Dfsite3h(o, c, n, s, c.index_age), Dfsite4(o, c, n, tta)>>, ""))

\* a variant of SMC_site_index that relies on the engine being set up already
SMC_site_index_no_setup(o, c, n, tta, h, err) ==
    Did(<<Dfsite3h(o, c, n, h, tta)>>, "")

\* DF_SMC_SiteCurve.site_index
SMC_site_index(o, c, n, tta, h, err) ==
    Then(SMC_setup(o, c, n, err), Did(<<Dfsite3h(o, c, n, h, tta)>>, ""))

\* DF_SMC_SiteCurve.__init__: SiteCurve.__init__ calls height twice, then
\* setup; fail names the setup in which dfsite3d reports an error, if any
SMC_construct(o, c, n, fail) ==
    Then(SMC_height(o, c, n, c.max_bha, c.max_si, IF fail = 1 THEN 1 ELSE 0),
         Then(SMC_height(o, c, n, c.min_bha, c.min_si, IF fail = 2 THEN 1 ELSE 0),
              SMC_setup(o, c, n, IF fail = 3 THEN 1 ELSE 0)))

\* a call ends: its engine calls are in the log, its outcome in smc_ret
smc_end(name, o, did) ==
    /\ smc_log' = smc_log \o did.entries
    /\ smc_ret' = [op |-> name, by |-> o,
                   kind |-> IF did.exc = "" THEN "return" ELSE "raise",
                   exc |-> did.exc]
    /\ smc_calls' = smc_calls + 1
    /\ UNCHANGED beside_smc

\* DF_SMC_SiteCurve(**kw)
smc_construct ==
    /\ smc_calls < MaxCalls
    /\ \E o \in SMC_Ids, kw \in SMC_Kwargs, fail \in 0..3 :
          /\ ~smc_objs[o].made
          /\ \E did \in {SMC_construct(o, DF_SMC_SiteCurve(kw), smc_calls + 1, fail)} :
                /\ smc_objs' = IF did.exc = ""
                               THEN [smc_objs EXCEPT ![o] = DF_SMC_SiteCurve(kw)]
                               ELSE smc_objs
                /\ smc_end("__init__", o, did)

\* the ages and the site indexes or heights the methods are called with
SMC_Ages == {5, 30}
SMC_Values == {35, 95}

\* curve.height(tta, si)
smc_height ==
    /\ smc_calls < MaxCalls
    /\ \E o \in SMC_Ids, tta \in SMC_Ages, s \in SMC_Values, err \in {0, 1} :
          /\ smc_objs[o].made
          /\ smc_end("height", o, SMC_height(o, smc_objs[o], smc_calls + 1, tta, s, err))
    /\ UNCHANGED smc_objs

\* curve.site_index(tta, ht)
smc_site_index ==
    /\ smc_calls < MaxCalls
    /\ \E o \in SMC_Ids, tta \in SMC_Ages, h \in SMC_Values, err \in {0, 1} :
          /\ smc_objs[o].made
          /\ smc_end("site_index", o,
                     SMC_site_index(o, smc_objs[o], smc_calls + 1, tta, h, err))
    /\ UNCHANGED smc_objs

\* DF_SMC_SiteCurve.set_density: one call of dfsite3d with the caller's
\* arguments; err is what dfsite3d returns
SMC_set_density(o, c, n, age1, age2, density, err) ==
    Did(<<EngineCall("dfsite3d", o, c, n, <<age1, age2, density>>)>>,
        IF err # 0 THEN "ValueError" ELSE "")

\* the array set_density hands to dfsite3d: 100 zeros with the slice
\* [age1:age2] set to the density
Regime(a) == [yr \in 0..99 |-> IF a[1] <= yr /\ yr < a[2] THEN a[3] ELSE 0]

\* the age ranges and the densities set_density is called with
SMC_Ranges == {<<2, 100>>, <<10, 50>>, <<0, 2>>}
SMC_Densities == {300, 500}

\* curve.set_density(age1, age2, density)
smc_set_density ==
    /\ smc_calls < MaxCalls
    /\ \E o \in SMC_Ids, r \in SMC_Ranges, d \in SMC_Densities, err \in {0, 1} :
          /\ smc_objs[o].made
          /\ smc_end("set_density", o,
                     SMC_set_density(o, smc_objs[o], smc_calls + 1, r[1], r[2], d, err))
    /\ UNCHANGED smc_objs

\* the engine may or may not be there
EngineInit ==
    /\ CurveInit
    /\ smc_loaded \in BOOLEAN
    /\ SMC_Idle
    /\ FA_Idle
    /\ CLI_Idle

EngineNext ==
    \/ smc_construct
    \/ smc_height
    \/ smc_site_index
    \/ smc_set_density

EngineSpec == EngineInit /\ [][EngineNext]_vars

(***************************************************************************)
(* misc_hg_funcs.find_age: the half-step search for an age.  Ages are      *)
(* counted in units of 1/Scale year and heights in units of 1/Scale^2, so  *)
(* that every halving of the schedule is exact, as it is in binary         *)
(* floating point for the values used here.                                *)
(***************************************************************************)
MaxHalvings == 3

RECURSIVE Pow2(_)
Pow2(k) == IF k <= 0 THEN 1 ELSE 2 * Pow2(k - 1)

Scale == Pow2(MaxHalvings + 1)
Years(n) == n * Scale
Height(n) == n * Scale * Scale

\* the height functions find_age is handed: increasing in age for si > 0
FA_Funcs == {"linear", "quadratic"}
FA_height(f, age, s) ==
    IF f = "linear" THEN s * age * Scale ELSE s * age * age

\* (0.5**np.arange(1, steps+1, 1)) * age_mid, with the whole range in place
\* of its half
Steps_whole(n, age_mid) == [k \in 1..n |-> (2 * age_mid) \div Pow2(k)]

\* (0.5**np.arange(1, steps+1, 1)) * age_mid: empty for steps < 1
Steps(n, age_mid) == [k \in 1..n |-> age_mid \div Pow2(k)]

\* abs(ht_mid-ht)<ht_err, and a test that never succeeds
Within_never(ht_mid, h, err) == FALSE
Within(ht_mid, h, err) == Abs(ht_mid - h) < err

\* ht<ht_mid, and the opposite test
Overshot_swapped(h, ht_mid) == h > ht_mid
Overshot(h, ht_mid) == h < ht_mid

FA_MaxAges == {Years(4), Years(8)}
FA_Sis == {1, 3}
FA_Errs == {Height(1) \div 2, Height(2)}

\* find_age(ht_func, si, ht, max_age, steps, ht_err) with ht the height at
\* the age a_star, up to the definition of the schedule
find_age_enter ==
    /\ fa.pc = "idle"
    /\ \E f \in FA_Funcs, s \in FA_Sis, max_age \in FA_MaxAges,
          n \in 0..MaxHalvings, err \in FA_Errs :
          \E a_star \in 1..(max_age - 1) :
            fa' = [pc |-> "for", ht_func |-> f, si |-> s,
                   ht |-> FA_height(f, a_star, s), a_star |-> a_star,
                   max_age |-> max_age, nsteps |-> n, ht_err |-> err,
                   age_high |-> max_age, age_low |-> 0,
                   age_mid |-> max_age \div 2,
                   steps |-> Steps(n, max_age \div 2),
                   k |-> 0, ht_mid |-> 0, hts |-> <<>>, moves |-> <<>>,
                   broke |-> FALSE, ret |-> 0]
    /\ UNCHANGED beside_fa

\* for step in steps
find_age_for ==
    /\ fa.pc = "for"
    /\ fa' = IF fa.k = Len(fa.steps)
             THEN [fa EXCEPT !.pc = "return"]
             ELSE [fa EXCEPT !.pc = "eval", !.k = fa.k + 1]
    /\ UNCHANGED beside_fa

\* ht_mid = ht_func(age_mid, si)
find_age_eval ==
    /\ fa.pc = "eval"
    /\ \E h \in {FA_height(fa.ht_func, fa.age_mid, fa.si)} :
          fa' = [fa EXCEPT !.pc = "test", !.ht_mid = h, !.hts = Append(fa.hts, h)]
    /\ UNCHANGED beside_fa

\* the test of the tolerance and the half step down or up
find_age_test ==
    /\ fa.pc = "test"
    /\ fa' = IF Within(fa.ht_mid, fa.ht, fa.ht_err)
             THEN [fa EXCEPT !.pc = "return", !.broke = TRUE]
             ELSE IF Overshot(fa.ht, fa.ht_mid)
             THEN [fa EXCEPT !.pc = "for", !.age_high = fa.age_mid,
                             !.age_mid = fa.age_mid - fa.steps[fa.k],
                             !.moves = Append(fa.moves, -fa.steps[fa.k])]
             ELSE [fa EXCEPT !.pc = "for", !.age_low = fa.age_mid,
                             !.age_mid = fa.age_mid + fa.steps[fa.k],
                             !.moves = Append(fa.moves, fa.steps[fa.k])]
    /\ UNCHANGED beside_fa

\* return age_mid
find_age_return ==
    /\ fa.pc = "return"
    /\ fa' = [fa EXCEPT !.pc = "done", !.ret = fa.age_mid]
    /\ UNCHANGED beside_fa

FindAgeNext ==
    \/ find_age_enter
    \/ find_age_for
    \/ find_age_eval
    \/ find_age_test
    \/ find_age_return

FindAgeSpec == Init /\ [][FindAgeNext]_vars

(***************************************************************************)
(* find_age in floating point, for numbers of steps at which the sums of   *)
(* the half steps are no longer exact                                      *)
(***************************************************************************)
MaxFloatSteps == 25

\* 0.5**k
HalfPow(k) == Norm(1, -k)

\* the schedule with the whole range in place of its half
FloatSteps_whole(n, age_mid) ==
    [k \in 1..n |-> FMul(HalfPow(k), FMul(age_mid, FromInt(2)))]

\* (0.5**np.arange(1, steps+1, 1)) * age_mid
FloatSteps(n, age_mid) == [k \in 1..n |-> FMul(HalfPow(k), age_mid)]

\* height functions of a float age: one that grows with age and one that
\* falls
FloatFuncs == {"linear", "fall"}
Float_height(f, age, s) ==
    IF f = "linear" THEN FMul(FromInt(s), age) ELSE FSub(FromInt(1000), age)

FloatMaxAges == {FromInt(100), FromInt(256), FromInt(300)}
\* targets below and above every height, and one between
FloatTargets == {FromInt(-1000), FromInt(37), FromInt(1000000)}

\* find_age(ht_func, si, ht, max_age, steps, ht_err), up to the definition of
\* the schedule
find_age_float_enter ==
    /\ fa.pc = "idle"
    /\ \E f \in FloatFuncs, max_age \in FloatMaxAges, h \in FloatTargets,
          n \in 0..MaxFloatSteps :
          \E age_mid \in {FMul(max_age, Half)} :
            fa' = [pc |-> "for", ht_func |-> f, si |-> 1, ht |-> h,
                   max_age |-> max_age, nsteps |-> n, ht_err |-> Half,
                   age_high |-> max_age, age_low |-> Zero, age_mid |-> age_mid,
                   steps |-> FloatSteps(n, age_mid),
                   k |-> 0, ht_mid |-> Zero, hts |-> <<>>, moves |-> <<>>,
                   broke |-> FALSE, ret |-> Zero]
    /\ UNCHANGED beside_fa

\* ht_mid = ht_func(age_mid, si)
find_age_float_eval ==
    /\ fa.pc = "eval"
    /\ \E h \in {Float_height(fa.ht_func, fa.age_mid, fa.si)} :
          fa' = [fa EXCEPT !.pc = "test", !.ht_mid = h, !.hts = Append(fa.hts, h)]
    /\ UNCHANGED beside_fa

\* the test of the tolerance and the half step down or up
find_age_float_test ==
    /\ fa.pc = "test"
    /\ fa' = IF FLt(FAbs(FSub(fa.ht_mid, fa.ht)), fa.ht_err)
             THEN [fa EXCEPT !.pc = "return", !.broke = TRUE]
             ELSE IF FLt(fa.ht, fa.ht_mid)
             THEN [fa EXCEPT !.pc = "for", !.age_high = fa.age_mid,
                             !.age_mid = FSub(fa.age_mid, fa.steps[fa.k]),
                             !.moves = Append(fa.moves, FNeg(fa.steps[fa.k]))]
             ELSE [fa EXCEPT !.pc = "for", !.age_low = fa.age_mid,
                             !.age_mid = FAdd(fa.age_mid, fa.steps[fa.k]),
                             !.moves = Append(fa.moves, fa.steps[fa.k])]
    /\ UNCHANGED beside_fa

FindAgeFloatNext ==
    \/ find_age_float_enter
    \/ find_age_for
    \/ find_age_float_eval
    \/ find_age_float_test
    \/ find_age_return

FindAgeFloatSpec == Init /\ [][FindAgeFloatNext]_vars

(***************************************************************************)
(* The command line: the commands si and ht of pysiteindex/__main__.py and *)
(* of site_index/__main__.py                                               *)
(***************************************************************************)
MaxAges == 2

\* an option that was not given
NoOpt == "None"

\* the identifiers in the registry of curves, of the families modelled here
Registered == {"king_1966", "wiley_1978", "harrington_1986", "curtis_1974", "fvs"}

\* the family registered under an identifier other than fvs
Family(key) ==
    CASE key = "king_1966" -> DF_King_SiteCurve
      [] key = "wiley_1978" -> WH_Wiley_SiteCurve
      [] key = "harrington_1986" -> RA_Harrington_SiteCurve
      [] key = "curtis_1974" -> DF_Curtis_SiteCurve

\* FVS_SiteCurve.__init__: upper() of the codes, then the FVS library, which
\* may be missing or may not know the species
FVS_Outcomes(variant, species) ==
    IF variant = NoOpt \/ species = NoOpt THEN {"AttributeError"}
    ELSE {"", "NameError", "ValueError"}
\* str.upper
Upper(u) ==
    CASE u = "pn" -> "PN"
      [] u = "wc" -> "WC"
      [] u = "df" -> "DF"
      [] u = "ra" -> "RA"
      [] OTHER -> u

\* x in ('CA') and x in ('SO'): the right-hand sides are strings, the test is
\* for a substring
In_CA(x) == x \in {"", "C", "A", "CA"}
In_SO(x) == x \in {"", "S", "O", "SO"}

\* the index age and the range of site indexes FVS_SiteCurve.__init__ picks
\* for self.fvs_variant, self.spp and its argument spp
FVS_IndexAge(self_fvs_variant, self_spp, spp) ==
    LET pick(idx_age, lo, hi) == [idx_age |-> idx_age, min_si |-> lo, max_si |-> hi]
    IN IF self_fvs_variant = "PN"
       THEN IF self_spp \in {"DF", "WH", "SS", "GF", "WF", "LP"} THEN pick(50, 50, 200)
            ELSE IF spp = "RA" THEN pick(20, 50, 200)
            ELSE pick(100, 50, 200)
       ELSE IF self_fvs_variant = "WC"
       THEN IF self_spp \in {"WH", "SS", "GF", "WF", "LP"} THEN pick(50, 50, 200)
            ELSE IF self_spp = "DF" THEN pick(100, 50, 300)
            ELSE IF self_spp = "RA" THEN pick(20, 50, 200)
            ELSE pick(100, 50, 200)
       ELSE IF In_CA(self_fvs_variant) THEN pick(50, 50, 200)
       ELSE IF In_SO(self_fvs_variant)
       THEN IF self_spp \in {"SP", "PP", "MH", "ES", "WJ", "WB", "AF", "NF", "WC"}
            THEN pick(100, 50, 200)
            ELSE IF self_spp = "RA" THEN pick(20, 50, 200)
            ELSE IF self_spp = "AS" THEN pick(80, 50, 200)
            ELSE pick(50, 50, 200)
       ELSE pick(100, 50, 200)

\* the object FVS_SiteCurve(fvs_variant, spp) makes; what its library
\* computes is one of FVS_Values
FVS_SiteCurve(fvs_variant, spp) ==
    LET t == FVS_IndexAge(Upper(fvs_variant), Upper(spp), spp)
    IN [name |-> "fvs", abbreviation |-> "fvs", index_age |-> t.idx_age,
        index_bha |-> TRUE, si_incr |-> 20, units |-> "ft",
        min_si |-> t.min_si, max_si |-> t.max_si]
FVS_Values == {FromInt(90), FromInt(120)}

\* an exception, or none
Exc(type, msg) == [type |-> type, msg |-> msg]
NoExc == Exc("", "")

\* the checks of the options: a variant with the check of the species only
UsageError_species(cmd, curve, variant, species) ==
    IF Lower(curve) = "fvs" /\ species = NoOpt
    THEN Exc("AttributeError", "A valid species is required")
    ELSE NoExc

\* the checks of the options at the head of si and ht
UsageError(cmd, curve, variant, species) ==
    IF Lower(curve) = "fvs" /\ species = NoOpt
    THEN Exc("AttributeError", "A valid species is required")
    ELSE IF cmd = "ht" /\ Lower(curve) = "fvs" /\ variant \in {NoOpt, ""}
    THEN Exc("AttributeError", "A FVS variant is required")
    ELSE NoExc

\* '{:.2f}' of a float: the hundredths, or inf and nan as they are
Fixed2(v) ==
    IF IsFinite(v) THEN [hundredths |-> RoundInt(FMul(v, FromInt(100)))]
    ELSE [hundredths |-> v]

\* '{:.2f}{} @{}={}'.format(value, sc.units, ref, at)
Line(v, sc, at) ==
    [value |-> Fixed2(v), units |-> sc.units,
     ref |-> IF sc.index_bha THEN "bha" ELSE "tta", at |-> at]

CliProgs == {"pysiteindex", "site_index"}
CliCurves(cmd) ==
    {"king_1966", "King_1966", "wiley_1978", "fvs", "FVS", "Fvs", "nope"} \cup
    (IF cmd = "ht" THEN {"harrington_1986", "curtis_1974"} ELSE {})
CliVariants == {NoOpt, "", "pn", "PN", "wc"}
CliSpecies == {NoOpt, "DF", "ra", "RA"}
CliAges == {20, 50}
CliValues == {80, 110}
\* --age may be repeated for ht of pysiteindex only
CliAgeLists(prog, cmd) ==
    IF prog = "pysiteindex" /\ cmd = "ht"
    THEN UNION {[1..n -> CliAges] : n \in 1..MaxAges}
    ELSE {<<a>> : a \in CliAges}

\* the command is entered with the options click has parsed
cli_invoke ==
    /\ cli.pc = "idle"
    /\ \E prog \in CliProgs, cmd \in {"si", "ht"}, variant \in CliVariants,
          species \in CliSpecies, value \in CliValues :
          \E curve \in CliCurves(cmd), age \in CliAgeLists(prog, cmd) :
            cli' = [pc |-> "usage", prog |-> prog, cmd |-> cmd, curve |-> curve,
                    variant |-> variant, species |-> species, forest |-> 0,
                    age |-> age, value |-> value, sc |-> NoCurve,
                    made |-> FALSE, hts |-> <<>>, k |-> 0, out |-> <<>>,
                    exc |-> NoExc, keys |-> <<>>, docs |-> <<>>, failed |-> {}]
    /\ UNCHANGED beside_cli

\* the command ends with an exception
cli_raise(e) == cli' = [cli EXCEPT !.pc = "exit", !.exc = e]

\* the checks at the head of the command
cli_usage ==
    /\ cli.pc = "usage"
    /\ \E e \in {UsageError(cli.cmd, cli.curve, cli.variant, cli.species)} :
          IF e # NoExc THEN cli_raise(e)
          ELSE cli' = [cli EXCEPT !.pc = "construct"]
    /\ UNCHANGED beside_cli

\* the identifier the registry is asked for: pysiteindex lowers it
CurveKey(prog, curve) == IF prog = "pysiteindex" THEN Lower(curve) ELSE curve

\* sc = curves[...](variant, species, forest_code=forest): the registry is
\* read first, then the arguments are evaluated, then the constructor runs
cli_construct ==
    /\ cli.pc = "construct"
    /\ IF CurveKey(cli.prog, cli.curve) \notin Registered
       THEN cli_raise(Exc("KeyError", cli.curve))
       ELSE IF cli.prog = "pysiteindex" /\ cli.variant = NoOpt
       THEN cli_raise(Exc("AttributeError", "'NoneType' object has no attribute 'lower'"))
       ELSE IF CurveKey(cli.prog, cli.curve) = "fvs"
       THEN \E e \in FVS_Outcomes(cli.variant, cli.species) :
              cli' = IF e = ""
                     THEN [cli EXCEPT !.pc = cli.cmd, !.made = TRUE,
                                      !.sc = FVS_SiteCurve(
                                                 IF cli.prog = "pysiteindex"
                                                 THEN Lower(cli.variant)
                                                 ELSE cli.variant,
                                                 cli.species)]
                     ELSE [cli EXCEPT !.pc = "exit", !.made = TRUE, !.exc = Exc(e, "")]
       ELSE cli' = [cli EXCEPT !.pc = cli.cmd, !.made = TRUE,
                               !.sc = Family(CurveKey(cli.prog, cli.curve))]
    /\ UNCHANGED beside_cli

\* si: the site index and the line printed
cli_si ==
    /\ cli.pc = "si"
    /\ \E v \in (IF cli.sc.name = "fvs" THEN FVS_Values
                 ELSE {Closed_site_index(cli.sc.name, FromInt(cli.age[1]),
                                         FromInt(cli.value))}) :
          IF IsRaised(v) THEN cli_raise(Exc("ZeroDivisionError", ""))
          ELSE cli' = [cli EXCEPT !.pc = "exit",
                                  !.out = <<Line(v, cli.sc, cli.sc.index_age)>>]
    /\ UNCHANGED beside_cli

\* hts[a] = ht: a dict keeps one entry for a key, in the place of its first
\* insertion
SetItem(d, key, v) ==
    IF \E n \in 1..Len(d) : d[n].key = key
    THEN [n \in 1..Len(d) |-> IF d[n].key = key THEN [key |-> key, v |-> v] ELSE d[n]]
    ELSE Append(d, [key |-> key, v |-> v])

\* ht: the height at the next age
cli_ht_height ==
    /\ cli.pc = "ht"
    /\ cli.k < Len(cli.age)
    /\ \E v \in (IF cli.sc.name = "fvs" THEN FVS_Values
                 ELSE {HtFunc(cli.sc.name, FromInt(cli.age[cli.k + 1]),
                              FromInt(cli.value))}) :
          IF IsRaised(v) THEN cli_raise(Exc("ZeroDivisionError", ""))
          ELSE cli' = [cli EXCEPT !.k = cli.k + 1,
                                  !.hts = SetItem(cli.hts, cli.age[cli.k + 1], v)]
    /\ UNCHANGED beside_cli

\* ht: the lines printed, one for every item of hts (site_index has one age
\* and prints its one line)
cli_ht_print ==
    /\ cli.pc = "ht"
    /\ cli.k = Len(cli.age)
    /\ cli' = [cli EXCEPT !.pc = "exit",
                          !.out = [n \in 1..Len(cli.hts) |->
                                      Line(cli.hts[n].v, cli.sc, cli.hts[n].key)]]
    /\ UNCHANGED beside_cli

\* the registry of curves, in the order the families are defined
curves ==
    <<"king_1966", "wiley_1978", "bruce_1981", "harrington_1986", "farr_1984",
      "curtis_1974", "smc_2001", "fvs">>

\* the place of an identifier in the order of strings
Rank(key) ==
    CASE key = "bruce_1981" -> 1
      [] key = "curtis_1974" -> 2
      [] key = "farr_1984" -> 3
      [] key = "fvs" -> 4
      [] key = "harrington_1986" -> 5
      [] key = "king_1966" -> 6
      [] key = "smc_2001" -> 7
      [] key = "wiley_1978" -> 8

\* sorted(keys)
Sorted(q) ==
    LET RECURSIVE Sort(_)
        Sort(S) == IF S = {} THEN <<>>
                   ELSE LET least == CHOOSE a \in S : \A b \in S : Rank(a) <= Rank(b)
                        IN <<least>> \o Sort(S \ {least})
    IN Sort({q[n] : n \in 1..Len(q)})

\* sc.__doc__.strip().split('\n')[0]
DocLine(key) ==
    CASE key = "king_1966" -> "Douglas-fir, King (1966)"
      [] key = "wiley_1978" -> "Western Hemlock, FIA PNW eq. 5a, Wiley (1978)"
      [] key = "bruce_1981" -> "Douglas-fir, Bruce (1981)"
      [] key = "harrington_1986" -> "Red alder, Harrington (1986)"
      [] key = "farr_1984" -> "Sitka spruce, Farr (1984), Res. Paper PNW-326"
      [] key = "curtis_1974" -> "Douglas-fir, Curtis, 1972"
      [] key = "smc_2001" -> "Douglas-fir site curves produced for the Stand Management Cooperative."
      [] key = "fvs" -> "Species site curves embedded in FVS variant libraries."

\* how sf() may end, or sf('PN','DF',708) for fvs: the engine of smc_2001 and
\* the library of fvs may be missing
Constructs(key) == IF key \in {"smc_2001", "fvs"} THEN BOOLEAN ELSE {TRUE}

\* --help-curves without a command: curve_docs is entered
cli_help_curves ==
    /\ cli.pc = "idle"
    /\ \E prog \in CliProgs :
          cli' = [pc |-> "docs", prog |-> prog, cmd |-> "help-curves", curve |-> "",
                  variant |-> NoOpt, species |-> NoOpt, forest |-> 0,
                  age |-> <<>>, value |-> 0, sc |-> NoCurve,
                  made |-> FALSE, hts |-> <<>>, k |-> 0, out |-> <<>>,
                  exc |-> NoExc, keys |-> Sorted(curves), docs |-> <<>>,
                  failed |-> {}]
    /\ UNCHANGED beside_cli

\* one pass of the loop of curve_docs: when the constructor raises,
\* pysiteindex goes on to the next key and site_index keeps the key with an
\* empty description
cli_docs_key ==
    /\ cli.pc = "docs"
    /\ cli.k < Len(cli.keys)
    /\ \E ok \in Constructs(cli.keys[cli.k + 1]) :
          cli' = IF ok
                 THEN [cli EXCEPT !.k = cli.k + 1,
                          !.docs = Append(cli.docs,
                                          [key |-> cli.keys[cli.k + 1],
                                           ds |-> DocLine(cli.keys[cli.k + 1])])]
                 ELSE IF cli.prog = "pysiteindex"
                 THEN [cli EXCEPT !.k = cli.k + 1,
                          !.failed = cli.failed \cup {cli.keys[cli.k + 1]}]
                 ELSE [cli EXCEPT !.k = cli.k + 1,
                          !.failed = cli.failed \cup {cli.keys[cli.k + 1]},
                          !.docs = Append(cli.docs,
                                          [key |-> cli.keys[cli.k + 1], ds |-> ""])]
    /\ UNCHANGED beside_cli

\* print(msg) and sys.exit(0)
cli_docs_print ==
    /\ cli.pc = "docs"
    /\ cli.k = Len(cli.keys)
    /\ cli' = [cli EXCEPT !.pc = "exit", !.out = cli.docs]
    /\ UNCHANGED beside_cli

CliNext ==
    \/ cli_help_curves
    \/ cli_docs_key
    \/ cli_docs_print
    \/ cli_invoke
    \/ cli_usage
    \/ cli_construct
    \/ cli_si
    \/ cli_ht_height
    \/ cli_ht_print

CliSpec == Init /\ [][CliNext]_vars

(***************************************************************************)
(* Properties                                                              *)
(***************************************************************************)
Done == pc = "done"
\* the call in progress runs find_si / find_bha
InFindSi ==
    \/ op \in {"find_si", "SiteCurve.find_si"}
    \/ op = "site_index" /\ ht_func \notin ClosedForm
InFindBha == op \in {"find_bha", "SiteCurve.find_bha", "SiteCurve.age"}
\* ht_func(bha, min_si) and ht_func(bha, max_si) of the call in progress
HtAtMin == HtFunc(ht_func, bha, bracket.lo)
HtAtMax == HtFunc(ht_func, bha, bracket.hi)
\* ht is a float below ht_func(bha, min_si) / above ht_func(bha, max_si)
HtBelowMin == IsNumber(ht) /\ IsNumber(HtAtMin) /\ FLt(ht, HtAtMin)
HtAboveMax == IsNumber(ht) /\ IsNumber(HtAtMax) /\ FGt(ht, HtAtMax)
\* |x - y|
Dist(x, y) == FAbs(FSub(x, y))

\* C1: find_si returns negative infinity, and raises nothing, whenever ht is
\* below ht_func(bha, min_si); the result is a function of the arguments, so
\* every call with the same arguments returns it.
C1_LowSentinel ==
    (Done /\ InFindSi /\ HtBelowMin) => ret = Return(NegInf)

\* a height below the low bound that passed the guard on ht and was rejected
\* by the comparison with ht_func(bha, min_si)
C1_Witness ==
    Done /\ InFindSi /\ HtBelowMin /\ evals = 1 /\ ret = Return(NegInf)

\* C2 as stated: find_si returns positive infinity whenever ht is above
\* ht_func(bha, max_si), ht = +infinity and non-positive bounds included.
C2_HighSentinel_AsStated ==
    (Done /\ InFindSi /\ HtAboveMax) => ret = Return(Inf)

\* C2: find_si returns positive infinity, and raises nothing, whenever ht is
\* finite and positive, above ht_func(bha, max_si) and not below
\* ht_func(bha, min_si).
C2_HighSentinel ==
    (Done /\ InFindSi /\ HtAboveMax /\ IsFinite(ht) /\ FGt(ht, Zero) /\ ~HtBelowMin)
        => ret = Return(Inf)

\* a finite positive height above the high bound: both bounds were evaluated
C2_Witness ==
    /\ Done /\ InFindSi /\ HtAboveMax /\ IsFinite(ht) /\ FGt(ht, Zero) /\ ~HtBelowMin
    /\ evals = 2 /\ ret = Return(Inf)

\* the target of find_si is in range: the guard and both bound checks passed
InRange ==
    /\ IsFinite(ht) /\ FGt(ht, Zero)
    /\ IsNumber(HtAtMin) /\ IsNumber(HtAtMax)
    /\ FLe(HtAtMin, ht) /\ FLe(ht, HtAtMax)

\* C3 as stated: for every max_iters >= 0 and every in-range target for which
\* no midpoint meets the tolerance, find_si evaluates exactly max_iters
\* midpoints and returns the last one, raising nothing.
C3_Exhaustion_AsStated ==
    (Done /\ InFindSi /\ InRange /\ ~met)
        => /\ ret.kind = "return"
           /\ evals = 2 + max_iters
           /\ mid_si # Unbound
           /\ ret.val = mid_si

OutOfDomain ==
    \/ op = "height" /\ (FLe(si, BreastHeight) \/ FLe(bha, Zero))
    \/ op = "site_index" /\ ht_func \in ClosedForm /\ FLe(bha, Zero)
    \/ op = "site_index_direct" /\ FLe(bha, Zero)

\* C5 as stated: a closed-form equation called with site index <= 4.5 or with
\* age <= 0 raises an error; it returns no finite number, NaN or 0.
C5_DomainErrors_AsStated ==
    (Done /\ OutOfDomain) => ret.kind = "raise"

C7_RealStep_AsStated ==
    (Done /\ InFindBha /\ FLt(min_ht, ht) /\ FLt(ht, max_ht))
        => /\ evals >= 1
           /\ mid # Unbound
           /\ ret = Return(mid)

\* 1 % and 1.25 % of x
Percent(x) == FMul(x, Dec(1, 2))
PercentAndQuarter(x) == FMul(x, Dec(125, 4))

\* C8 as stated: for King, every age and site index of the domain,
\* curve.find_si(age, height(age, si)) is within 1 % of si of both si and the
\* closed-form site_index(age, height(age, si)).
C8_SearchAgrees_AsStated ==
    (Done /\ op = "SiteCurve.find_si" /\ case # NoCase)
        => /\ ret.kind = "return"
           /\ FLe(Dist(ret.val, case.si), Percent(case.si))
           /\ FLe(Dist(ret.val, King_site_index(bha, ht)), Percent(case.si))

\* C8: for King, every age and site index of the domain,
\* curve.find_si(age, height(age, si)) is within 1.25 % of si of both si and
\* the closed-form site_index(age, height(age, si)), and within 1 % when the
\* age is 12 years or more.
C8_SearchAgrees ==
    (Done /\ op = "SiteCurve.find_si" /\ case # NoCase)
        => /\ ret.kind = "return"
           /\ FLe(Dist(ret.val, case.si), PercentAndQuarter(case.si))
           /\ FLe(Dist(ret.val, King_site_index(bha, ht)), PercentAndQuarter(case.si))
           /\ FGe(case.bha, FromInt(12))
                => /\ FLe(Dist(ret.val, case.si), Percent(case.si))
                   /\ FLe(Dist(ret.val, King_site_index(bha, ht)), Percent(case.si))

\* a search that ran the bisection and ended within 1 % of the site index
C8_Witness ==
    /\ Done /\ op = "SiteCurve.find_si" /\ case # NoCase
    /\ i >= 3 /\ met
    /\ ret.kind = "return" /\ FLe(Dist(ret.val, case.si), Percent(case.si))

RECURSIVE find_si_loop(_, _, _, _, _, _, _, _)
find_si_loop(f, b, h, lo, hi, n, err, m) ==
    IF n = 0 THEN ReturnLocal(m)
    ELSE LET mid_si_n == Midpoint(lo, hi)
             mid_ht_n == HtFunc(f, b, mid_si_n)
         IN IF IsRaised(mid_ht_n) THEN Raise("ZeroDivisionError")
            ELSE IF FEq(mid_ht_n, NaN) THEN Return(NaN)
            ELSE IF FLe(FAbs(FSub(h, mid_ht_n)), err) THEN Return(mid_si_n)
            ELSE find_si_loop(f, b, h,
                              IF ~FGt(mid_ht_n, h) /\ FLt(mid_ht_n, h)
                              THEN mid_si_n ELSE lo,
                              IF FGt(mid_ht_n, h) THEN mid_si_n ELSE hi,
                              n - 1, err, mid_si_n)

\* find_si(ht_func, bha, ht, min_si, max_si, max_iters, ht_err) as a function
\* of its arguments
find_si(f, b, h, lo, hi, n, err) ==
    IF h = None \/ ~IsFinite(h) \/ FLe(h, Zero) THEN Return(BelowRange)
    ELSE LET min_ht_f == HtFunc(f, b, lo)
             max_ht_f == HtFunc(f, b, hi)
         IN IF IsRaised(min_ht_f) THEN Raise("ZeroDivisionError")
            ELSE IF FGt(min_ht_f, h) THEN Return(BelowRange)
            ELSE IF IsRaised(max_ht_f) THEN Raise("ZeroDivisionError")
            ELSE IF FLt(max_ht_f, h) THEN Return(AboveRange)
            ELSE find_si_loop(f, b, h, lo, hi, n, err, Unbound)

\* the call in progress is SiteCurve.find_si, called directly or by the
\* inherited site_index
InCurveFindSi ==
    \/ op = "SiteCurve.find_si"
    \/ op = "site_index" /\ self.name \notin ClosedForm

\* C11: for every family that does not define site_index and every scalar
\* age and height, site_index(age, ht) equals the module's find_si driven by
\* the family's own height on the bracket [self.min_si, self.max_si];
\* SiteCurve.find_si always runs with max_iters = 20 and ht_err = 0.1,
\* whatever keyword arguments the caller passed.
C11_DefaultFallback ==
    (Done /\ InCurveFindSi)
        => /\ ht_func = self.name
           /\ bracket = [lo |-> self.min_si, hi |-> self.max_si]
           /\ max_iters = DefaultMaxIters
           /\ ht_err = DefaultHtErr
           /\ ret = find_si(self.name, bha, ht, self.min_si, self.max_si,
                            DefaultMaxIters, DefaultHtErr)

\* a Curtis site index found by the inherited search, after several passes
C11_Witness ==
    /\ Done /\ op = "site_index" /\ self.name = "curtis_1974" /\ case # NoCase
    /\ i >= 3 /\ met
    /\ ret = find_si(self.name, bha, ht, self.min_si, self.max_si,
                     DefaultMaxIters, DefaultHtErr)

\* curve.height(x, y) and curve.site_index(x, y) of scalars
Scalar_height(c, x, y) == HtFunc(c.name, x, y)
Scalar_site_index(c, x, y) ==
    IF c.name \in ClosedForm THEN Closed_site_index(c.name, x, y)
    ELSE find_si(c.name, x, y, c.min_si, c.max_si, DefaultMaxIters, DefaultHtErr).val

\* the result array of the finished batch call is the scalar method applied
\* element by element
ElementWise ==
    /\ ret.kind # "raise"
    /\ Len(batch.out) = Len(batch.xs)
    /\ \A k \in 1..Len(batch.xs) :
          batch.out[k] = IF batch.kind = "v_height"
                         THEN Scalar_height(self, batch.xs[k], batch.ys[k])
                         ELSE Scalar_site_index(self, batch.xs[k], batch.ys[k])

\* C12 as stated: for same-length sequences of any length, empty ones
\* included, v_height and v_site_index (and the inherited site_index called
\* with sequences) return a result of the same length whose elements are the
\* scalar method applied to the corresponding elements.
C12_Batch_AsStated ==
    pc = "v_done" => ElementWise

\* for sequences of one element or more the batch methods are the scalar
\* method applied element by element
C12_Batch_NonEmpty ==
    (pc = "v_done" /\ Len(batch.xs) > 0) => ElementWise

\* the engine functions that answer a query
Queries == {"dfsite3h", "dfsite4"}

\* the three calls before the k-th are dfsite1, dfsite2, dfsite3d, made in
\* the same call by the same object with its own parameters
InitBefore(k) ==
    /\ k > 3
    /\ smc_log[k - 3] = Dfsite1(smc_log[k].by, smc_log[k].self, smc_log[k].call)
    /\ smc_log[k - 2] = Dfsite2(smc_log[k].by, smc_log[k].self, smc_log[k].call)
    /\ smc_log[k - 1] = Dfsite3d(smc_log[k].by, smc_log[k].self, smc_log[k].call)

\* C13 as stated: every engine query (dfsite3h, dfsite4) is preceded, in the
\* same call and with no other query in between, by dfsite1, dfsite2 and
\* dfsite3d with the calling object's parameters.
C13_ReInit_AsStated ==
    \A k \in 1..Len(smc_log) : smc_log[k].fn \in Queries => InitBefore(k)

\* C13: every dfsite3h is preceded directly, in the same call, by dfsite1,
\* dfsite2 and dfsite3d(2, 100, 300) with the calling object's parameters;
\* every dfsite4 is preceded directly by the dfsite3h(si, 1, index_age) of
\* the same call, which is preceded in that way.
C13_ReInit ==
    \A k \in 1..Len(smc_log) :
        /\ smc_log[k].fn = "dfsite3h" => InitBefore(k)
        /\ smc_log[k].fn = "dfsite4"
             => /\ k > 4
                /\ smc_log[k - 1].fn = "dfsite3h"
                /\ smc_log[k - 1].by = smc_log[k].by
                /\ smc_log[k - 1].self = smc_log[k].self
                /\ smc_log[k - 1].call = smc_log[k].call
                /\ smc_log[k - 1].a[3] = smc_log[k].self.index_age
                /\ InitBefore(k - 1)

\* a height call of one object after the construction of another with other
\* parameters
C13_Witness ==
    /\ smc_ret.op = "height" /\ smc_ret.kind = "return"
    /\ Len(smc_log) > 5
    /\ smc_log[Len(smc_log)].fn = "dfsite4"
    /\ smc_log[Len(smc_log) - 5].by # smc_log[Len(smc_log)].by
    /\ smc_log[Len(smc_log) - 5].self.max_age # smc_log[Len(smc_log)].self.max_age

\* C14: when smc_dfsite is not loaded, constructing DF_SMC_SiteCurve raises
\* SystemError before any engine function is called, and no object comes
\* into being.
C14_FailFast ==
    ~smc_loaded
        => /\ smc_log = <<>>
           /\ \A o \in SMC_Ids : ~smc_objs[o].made
           /\ smc_calls > 0
                => (smc_ret.op = "__init__" /\ smc_ret.kind = "raise"
                    /\ smc_ret.exc = "SystemError")

\* a construction attempted without the engine
C14_Witness ==
    /\ ~smc_loaded /\ smc_calls > 0
    /\ smc_ret.op = "__init__" /\ smc_ret.exc = "SystemError"
    /\ smc_log = <<>>

\* find_age has been entered
FA_Called == fa.pc # "idle"
FA_Done == fa.pc = "done"

Constructed == self # NoCurve /\ pc \notin {"init_max", "init_min"}

\* C18: once a curve that is not backed by the engine is constructed, no
\* call of height, site_index, age, find_si, find_bha, v_height or
\* v_site_index changes name, abbreviation, index_age, index_bha, min_bha,
\* max_bha, min_si, max_si, si_incr, units, min_ht or max_ht.
C18_Immutable == [][Constructed => self' = self]_vars

\* what the constructor leaves in the object
ConstructedAs(c) ==
    [c EXCEPT !.max_ht = HtFunc(c.name, c.max_bha, c.max_si),
              !.min_ht = HtFunc(c.name, c.min_bha, c.min_si)]

\* a search of SiteCurve.find_si that narrowed its bracket three times and
\* left the object as the constructor made it
C18_Witness ==
    /\ Done /\ InCurveFindSi /\ i >= 3
    /\ min_si # self.min_si /\ max_si # self.max_si
    /\ self = ConstructedAs(DF_Curtis_SiteCurve)

\* a command has been entered; it has ended
CliRun == cli.pc # "idle"
CliExit == cli.pc = "exit"

\* C19: with curve fvs in any letter case, si and ht without --species and
\* ht without --variant end with the error of the check, before the curve
\* is constructed and with no line printed.
C19_UsageErrors ==
    (/\ CliRun
     /\ Lower(cli.curve) = "fvs"
     /\ cli.species = NoOpt \/ (cli.cmd = "ht" /\ cli.variant = NoOpt))
        => /\ ~cli.made
           /\ cli.out = <<>>
           /\ CliExit => (cli.exc.type = "AttributeError"
                          /\ cli.exc.msg \in {"A valid species is required",
                                              "A FVS variant is required"})

\* ht for curve FVS with a species and no variant, ended by the check
C19_Witness ==
    /\ CliExit /\ cli.cmd = "ht" /\ cli.curve = "FVS"
    /\ cli.species # NoOpt /\ cli.variant = NoOpt
    /\ cli.exc = Exc("AttributeError", "A FVS variant is required")

\* C20 as stated: for a registered curve other than fvs, si with --curve,
\* --age and --height only ends without error and prints the one line
\* '{value:.2f}{units} @{ref}={index_age}'.
C20_OptionalOptions_AsStated ==
    (/\ CliExit /\ cli.cmd = "si"
     /\ cli.curve \in Registered \ {"fvs"}
     /\ cli.variant = NoOpt /\ cli.species = NoOpt)
        => /\ cli.exc = NoExc
           /\ Len(cli.out) = 1
           /\ cli.out[1] = Line(Closed_site_index(cli.curve, FromInt(cli.age[1]),
                                                  FromInt(cli.value)),
                                Family(cli.curve), Family(cli.curve).index_age)

\* C21 as stated: ht prints one line for every --age given, repeated values
\* included, in the order given.
C21_LinePerAge_AsStated ==
    (CliExit /\ cli.cmd = "ht" /\ cli.exc = NoExc)
        => /\ Len(cli.out) = Len(cli.age)
           /\ \A n \in 1..Len(cli.age) : cli.out[n].at = cli.age[n]

\* C22 as stated: the listing of --help-curves has exactly one entry
\* 'identifier: first docstring line' for every registered identifier whose
\* family constructs with default arguments, none for a family whose
\* construction raises, and the entries are in sorted order.
C22_Listing_AsStated ==
    (CliExit /\ cli.cmd = "help-curves")
        => /\ \A n \in 1..Len(cli.out) :
                /\ cli.out[n].key \notin cli.failed
                /\ cli.out[n].ds = DocLine(cli.out[n].key)
           /\ \A n \in 1..Len(curves) :
                curves[n] \notin cli.failed
                    => Cardinality({j \in 1..Len(cli.out) : cli.out[j].key = curves[n]}) = 1
           /\ \A j, n \in 1..Len(cli.out) :
                j < n => Rank(cli.out[j].key) < Rank(cli.out[n].key)

\* the height at the midpoint has been evaluated: the step that follows is
\* the rest of the iteration
MidEvaluated == pc = "find_si_mid" /\ called

\* C23 as stated: every iteration of find_si evaluates the height at the
\* midpoint of the current bracket; it returns the midpoint when
\* |ht - mid_ht| <= ht_err; otherwise the upper bound becomes the midpoint
\* if mid_ht > ht and else the lower bound does, so the width of the bracket
\* is halved by every iteration that does not return.
C23_BisectionStep_AsStated ==
    [][MidEvaluated
        => /\ mid_si = Midpoint(min_si, max_si)
           /\ IF FLe(FAbs(FSub(ht, ht_val)), ht_err)
              THEN pc' = "done" /\ ret' = Return(mid_si)
              ELSE /\ pc' = "find_si_loop"
                   /\ IF FGt(ht_val, ht)
                      THEN max_si' = mid_si /\ min_si' = min_si
                      ELSE min_si' = mid_si /\ max_si' = max_si
                   /\ FSub(max_si', min_si') = FMul(FSub(max_si, min_si), Half)]_vars

\* C24 as stated: when the height function returns NaN at a midpoint,
\* find_si returns NaN at that iteration.
C24_NaNMidpoint_AsStated ==
    [][(MidEvaluated /\ IsNaN(ht_val)) => (pc' = "done" /\ ret' = Return(NaN))]_vars

\* the height functions that do not fall as the site index grows, where
\* they are defined
Monotone == {"king_1966", "harrington_1986", "curtis_1974", "sum"}
\* the search runs on such a function at an age where it is defined: the
\* heights at the bounds of the original bracket are numbers
MonotoneSearch == ht_func \in Monotone /\ IsFinite(min_ht) /\ IsFinite(max_ht)

\* the loop of find_si is at the start of an iteration; at its midpoint
AtIteration == InFindSi /\ pc = "find_si_loop"
AtMidpoint == InFindSi /\ pc = "find_si_mid"

C26_AgeRange ==
    InFindBha
        => /\ FGt(ht_err, Zero)
           /\ ht_err \in (SearchTolerances \cup {Milli, DefaultBhaHtErr})
           /\ evals <= max_steps
           /\ (Done /\ ret.kind = "return")
                => (FLe(min_bha, ret.val) /\ FLe(ret.val, max_bha))

\* a search on a function that falls with age, run to its last step with
\* the tolerance 0.001
C26_Witness ==
    /\ Done /\ InFindBha /\ ret.kind = "return"
    /\ ht_func = "fall" /\ evals = max_steps /\ max_steps >= 3
    /\ ht_err = Milli
    /\ FLt(min_bha, ret.val) /\ FLt(ret.val, max_bha)

ExactSteps == MantBits - 7

LastDensity(k) ==
    LET before == {j \in 1..(k - 1) : smc_log[j].fn = "dfsite3d"}
    IN IF before = {} THEN 0 ELSE CHOOSE j \in before : \A l \in before : l <= j

\* 300 trees per acre at the ages 2..99
BaseRegime == [yr \in 0..99 |-> IF yr \in 2..99 THEN 300 ELSE 0]

\* C28: a density regime set with set_density does not survive to the next
\* query: the regime handed to the engine last before every query (dfsite3h,
\* dfsite4) is the one of the setup of the same call, 300 TPA for the ages
\* 2..99, whatever set_density was called with before.
C28_DensityReset ==
    \A k \in 1..Len(smc_log) :
        smc_log[k].fn \in Queries
            => /\ LastDensity(k) > 0
               /\ smc_log[LastDensity(k)].call = smc_log[k].call
               /\ smc_log[LastDensity(k)].by = smc_log[k].by
               /\ Regime(smc_log[LastDensity(k)].a) = BaseRegime

\* a query that returned after the same object had set another regime
C28_Witness ==
    /\ smc_ret.op \in {"height", "site_index"} /\ smc_ret.kind = "return"
    /\ \E j \in 1..Len(smc_log) :
          /\ smc_log[j].fn = "dfsite3d"
          /\ smc_log[j].by = smc_ret.by
          /\ smc_log[j].call < smc_calls
          /\ Regime(smc_log[j].a) # BaseRegime
    /\ smc_log[Len(smc_log)].fn \in Queries

\* a curve of the FVS family has been constructed by the command
FVS_Made == CliRun /\ cli.exc = NoExc /\ cli.sc.name = "fvs"

\* what the claim compares: index_age, min_si and max_si
Selection(sc) == <<sc.index_age, sc.min_si, sc.max_si>>

\* C29 as stated: the index age, min_si and max_si of an FVS_SiteCurve do not
\* depend on the letter case of the variant and the species: the curve the
\* command constructed has those of the curve built from the lower-case codes
\* and those of the curve built from the upper-case codes.
C29_CaseBlind_AsStated ==
    FVS_Made
        => /\ Selection(cli.sc)
                = Selection(FVS_SiteCurve(Upper(cli.variant), Upper(cli.species)))
           /\ Selection(cli.sc)
                = Selection(FVS_SiteCurve(Lower(cli.variant), Lower(cli.species)))

====
